---- MODULE Spec2Model ----
(***************************************************************************)
(* A model of the ordered-set engine of src/balanced-binary-tree.rs        *)
(* (AvlTree<T>), with T instantiated to a small range of integers, and of  *)
(* the expression evaluator of src/calculator.rs (Calculator).             *)
(*                                                                         *)
(* Option<Box<Node<T>>> is a sequence of length 0 (None) or 1 (Some(n));   *)
(* a Node is a record with the fields of the Rust struct.                  *)
(*                                                                         *)
(* A line of input is a sequence of one-character strings.  An f64 is      *)
(* modelled by the integers of magnitude up to ExactLimit, on which the    *)
(* IEEE-754 operations used here are exact; an evaluation that leaves      *)
(* that range (a fraction, an irrational, an infinity, a NaN) is marked    *)
(* Inexact and is not followed further.                                    *)
(***************************************************************************)
EXTENDS Integers, Sequences, FiniteSets, TLC

\* ------------------------------------------------------------------ bounds

\* The element type T is modelled by the integers 1..MaxVal.
MaxVal == 8

\* The larger range of values of the specification that records no call.
MaxDeep == 11

\* Values used when two trees are filled with permutations of one set.
MaxPerm == 6

\* Values and number of calls in the call-counting specifications.
MaxCountVal == 3
MaxOps == 8

\* The integers of magnitude up to ExactLimit model the f64 values.
ExactLimit == 100000

\* Square roots are computed for arguments up to SqrtLimit.
SqrtLimit == 100

\* The numerals used as operands are 0..MaxOperand.
MaxOperand == 4

\* The free-form lines have at most MaxChars characters.
MaxChars == 4

\* A session reads at most MaxLines lines before standard input ends.
MaxLines == 3

\* The lists hold the data 1..MaxData and at most MaxListLen nodes.
MaxData == 3
MaxListLen == 4

\* The lines parsed call by call are made of at most MaxLexemes lexemes.
MaxLexemes == 3

\* The DoubleLinkedList holds the data of DlData and at most MaxDlLen nodes.
MaxDlLen == 3
DlData == {1, 2}

\* Values inserted into the AvlTree and the BinaryTree that are compared.
MaxSetVal == 5

Values == 1..MaxVal
SetValues == 1..MaxSetVal
DeepValues == 1..MaxDeep
PermValues == 1..MaxPerm
CountValues == 1..MaxCountVal

\* ------------------------------------------------------------------ state

VARIABLES
    root,       \* AvlTree.root : Option<Box<Node<T>>>
    size,       \* AvlTree.size : usize
    lastOp,     \* the public method called last ("new" after construction)
    lastArg,    \* its argument (0 when it has none)
    lastRet,    \* its return value, for the methods returning bool
    wasIn,      \* whether its argument was in S when it was called
    lastCase,   \* remove: the children of the node that held the argument
    S,          \* the mathematical set the tree stands for
    root2,      \* a second AvlTree (root)
    size2,      \* a second AvlTree (size)
    S2,         \* the values inserted into the second tree
    nInsert,        \* per value: insert(v) calls since construction
    nInsertAbsent,  \* per value: those of them made while v was absent
    nRemoveTrue,    \* per value: remove(v) calls that returned true
    insSinceClear,  \* inserts of an absent value since the last clear (or construction)
    remSinceClear,  \* removes that returned true since the last clear (or construction)
    nOps,           \* calls made so far in the call-counting specifications
    memory,         \* Calculator.memory : [f64; 10]
    last_result,    \* Calculator.last_result : f64
    input,          \* the line handed to evaluate, or read by run
    result,         \* the Result returned by the latest evaluate
    calcOp,         \* the latest operation on the calculator ("new" after construction)
    calcArg,        \* the memory slot of the latest SaveMemory / ClearMemory
    stored3,        \* the value the latest store put into slot 3, if no c3 followed
    pc,             \* run: the position in the loop
    eof,            \* run: standard input has reached end-of-file
    nRead,          \* run: lines read so far
    shape,          \* the operands and operators the line was built from, if it was
    panicked,       \* AvlTree: an unwrap() of a rotation met None and the thread has panicked
    rootBefore,     \* AvlTree.root when the method called last was entered
    bt_root,        \* BinaryTree.root : Option<Box<Node<T>>>
    bt_size,        \* BinaryTree.size : usize
    ll_head,        \* LinkedList.head : Option<Box<Node<T>>>
    ll_size,        \* LinkedList.size : usize
    llOp,           \* the LinkedList method called last ("new" after construction)
    llArg,          \* its argument (0 when it has none)
    llRet,          \* its return value: None, Some(x), or a bool
    dl_head,        \* DoubleLinkedList.head : Option<Rc<RefCell<Node<T>>>>, a node id or None
    dl_tail,        \* DoubleLinkedList.tail : Option<Weak<RefCell<Node<T>>>>, a node id or None
    dl_length,      \* DoubleLinkedList.length : usize, as the residue modulo 2^64 nearest
                    \* to 0 (-1 is usize::MAX)
    dl_nodes,       \* the allocations Rc<RefCell<Node<T>>> by id: data, next (Rc), prev (Weak)
    dlOp,           \* the DoubleLinkedList method called last ("new" after construction)
    dlArg,          \* its argument (0 when it has none)
    dlRet,          \* its return value: None, Some(x), or a bool
    dlStatus,       \* DoubleLinkedList: the call made last has returned ("ok"), has reached
                    \* a panic!() ("panic"), has borrowed a RefCell twice ("borrowed"), has
                    \* decremented length 0 with overflow checks ("overflow"), or walks a
                    \* cycle of next links for ever ("loop")
    ev_tokens,      \* evaluate: `tokens`, the Vec<Token> that tokenize returned
    ev_pos,         \* evaluate: `pos`, the index the parse functions move through tokens
    ev_frames,      \* evaluate: the calls of the parse functions that have not returned,
                    \* the innermost last, each with the place it has reached
    ev_ret          \* evaluate: the Result the call that returned last hands to its caller

histVars == <<lastOp, lastArg, lastRet, wasIn, lastCase, S>>
tree2Vars == <<root2, size2, S2>>
countVars == <<nInsert, nInsertAbsent, nRemoveTrue, insSinceClear, remSinceClear, nOps>>
calcVars == <<memory, last_result, input, result, calcOp, calcArg, stored3, pc, eof, nRead, shape>>
avlVars == <<root, size, histVars, tree2Vars, countVars>>
btVars == <<bt_root, bt_size>>
llVars == <<ll_head, ll_size, llOp, llArg, llRet>>
dlVars == <<dl_head, dl_tail, dl_length, dl_nodes, dlOp, dlArg, dlRet, dlStatus>>
parseVars == <<ev_tokens, ev_pos, ev_frames, ev_ret>>
moreVars == <<panicked, rootBefore, btVars, llVars, dlVars, parseVars>>
vars == <<root, size, lastOp, lastArg, lastRet, wasIn, lastCase, S, root2, size2, S2,
          nInsert, nInsertAbsent, nRemoveTrue, insSinceClear, remSinceClear, nOps,
          memory, last_result, input, result, calcOp, calcArg, stored3, pc, eof, nRead, shape,
          panicked, rootBefore, bt_root, bt_size, ll_head, ll_size, llOp, llArg, llRet,
          dl_head, dl_tail, dl_length, dl_nodes, dlOp, dlArg, dlRet, dlStatus,
          ev_tokens, ev_pos, ev_frames, ev_ret>>

\* ------------------------------------------------------------------ Option

None == <<>>
Some(n) == <<n>>
Unwrap(o) == o[1]

Max(a, b) == IF a >= b THEN a ELSE b

\* ------------------------------------------------------------------ AvlTree

\* fn node_height(node: &Option<Box<Node<T>>>) -> u8
node_height(node) == IF node = None THEN 0 ELSE Unwrap(node).height

\* fn update_height(node: &mut Node<T>)
update_height(node) ==
    [node EXCEPT !.height = 1 + Max(node_height(node.left), node_height(node.right))]

\* balance_factor with the two heights exchanged
balance_factor_swapped(node) == node_height(node.right) - node_height(node.left)

\* fn balance_factor(node: &Node<T>) -> i8
balance_factor(node) == node_height(node.left) - node_height(node.right)

\* rotate_right that forgets to refresh the height of the demoted node
rotate_right_stale(rt) ==
    LET new_root == Unwrap(rt.left)
        root1 == [rt EXCEPT !.left = new_root.right]
    IN  update_height([new_root EXCEPT !.right = Some(root1)])

\* fn rotate_right(mut root: Box<Node<T>>) -> Box<Node<T>>
rotate_right(rt) ==
    LET new_root == Unwrap(rt.left)
        root1 == update_height([rt EXCEPT !.left = new_root.right])
    IN  update_height([new_root EXCEPT !.right = Some(root1)])

\* rotate_left that does not hand the pivot's left subtree to the demoted node
rotate_left_loses_inner(rt) ==
    LET new_root == Unwrap(rt.right)
        root1 == update_height([rt EXCEPT !.right = None])
    IN  update_height([new_root EXCEPT !.left = Some(root1)])

\* fn rotate_left(mut root: Box<Node<T>>) -> Box<Node<T>>
rotate_left(rt) ==
    LET new_root == Unwrap(rt.right)
        root1 == update_height([rt EXCEPT !.right = new_root.left])
    IN  update_height([new_root EXCEPT !.left = Some(root1)])

\* rebalance that handles the left-heavy case only
rebalance_left_only(node) ==
    LET n1 == update_height(node)
        balance == balance_factor(n1)
    IN  IF balance > 1
        THEN LET left_balance ==
                     IF n1.left # None THEN balance_factor(Unwrap(n1.left)) ELSE 0
                 n2 == IF left_balance < 0
                       THEN [n1 EXCEPT !.left = Some(rotate_left(Unwrap(n1.left)))]
                       ELSE n1
             IN  rotate_right(n2)
        ELSE n1

\* rebalance that takes the double rotation also when the child's balance is 0
rebalance_tie_double(node) ==
    LET n1 == update_height(node)
        balance == balance_factor(n1)
    IN  IF balance > 1
        THEN LET left_balance ==
                     IF n1.left # None THEN balance_factor(Unwrap(n1.left)) ELSE 0
                 n2 == IF left_balance <= 0
                       THEN [n1 EXCEPT !.left = Some(rotate_left(Unwrap(n1.left)))]
                       ELSE n1
             IN  rotate_right(n2)
        ELSE IF balance < -1
        THEN LET right_balance ==
                     IF n1.right # None THEN balance_factor(Unwrap(n1.right)) ELSE 0
                 n2 == IF right_balance >= 0
                       THEN [n1 EXCEPT !.right = Some(rotate_right(Unwrap(n1.right)))]
                       ELSE n1
             IN  rotate_left(n2)
        ELSE n1

\* rebalance that never rotates the child first
rebalance_single_only(node) ==
    LET n1 == update_height(node)
        balance == balance_factor(n1)
    IN  IF balance > 1 THEN rotate_right(n1)
        ELSE IF balance < -1 THEN rotate_left(n1)
        ELSE n1

\* fn rebalance(mut node: Box<Node<T>>) -> Box<Node<T>>
rebalance(node) ==
    LET n1 == update_height(node)
        balance == balance_factor(n1)
    IN  IF balance > 1
        THEN LET left_balance ==
                     IF n1.left # None THEN balance_factor(Unwrap(n1.left)) ELSE 0
                 n2 == IF left_balance < 0
                       THEN [n1 EXCEPT !.left = Some(rotate_left(Unwrap(n1.left)))]
                       ELSE n1
             IN  rotate_right(n2)
        ELSE IF balance < -1
        THEN LET right_balance ==
                     IF n1.right # None THEN balance_factor(Unwrap(n1.right)) ELSE 0
                 n2 == IF right_balance > 0
                       THEN [n1 EXCEPT !.right = Some(rotate_right(Unwrap(n1.right)))]
                       ELSE n1
             IN  rotate_left(n2)
        ELSE n1

RECURSIVE insert_node(_, _)
\* insert_node whose Equal arm reports an insertion
insert_node_equal_inserts(node, value) ==
    IF node = None
    THEN <<Some([value |-> value, left |-> None, right |-> None, height |-> 1]), TRUE>>
    ELSE LET n == Unwrap(node)
             sub == IF value < n.value THEN insert_node(n.left, value)
                    ELSE IF value > n.value THEN insert_node(n.right, value)
                    ELSE <<None, TRUE>>
             inserted == sub[2]
             n1 == IF value < n.value THEN [n EXCEPT !.left = sub[1]]
                   ELSE IF value > n.value THEN [n EXCEPT !.right = sub[1]]
                   ELSE n
             result_node == IF inserted THEN rebalance(n1) ELSE n1
         IN  <<Some(result_node), inserted>>

\* fn insert_node(node, value) -> (Option<Box<Node<T>>>, bool)
insert_node(node, value) ==
    IF node = None
    THEN <<Some([value |-> value, left |-> None, right |-> None, height |-> 1]), TRUE>>
    ELSE LET n == Unwrap(node)
             sub == IF value < n.value THEN insert_node(n.left, value)
                    ELSE IF value > n.value THEN insert_node(n.right, value)
                    ELSE <<None, FALSE>>
             inserted == sub[2]
             n1 == IF value < n.value THEN [n EXCEPT !.left = sub[1]]
                   ELSE IF value > n.value THEN [n EXCEPT !.right = sub[1]]
                   ELSE n
             result_node == IF inserted THEN rebalance(n1) ELSE n1
         IN  <<Some(result_node), inserted>>

RECURSIVE extract_min(_)
\* extract_min that drops the right subtree of the leftmost node
extract_min_drops_right(node) ==
    IF node.left = None
    THEN <<node.value, None>>
    ELSE LET sub == extract_min(Unwrap(node.left))
             rebalanced == rebalance([node EXCEPT !.left = sub[2]])
         IN  <<sub[1], Some(rebalanced)>>

\* extract_min that hands the node back without rebalancing it
extract_min_no_rebalance(node) ==
    IF node.left = None
    THEN <<node.value, node.right>>
    ELSE LET sub == extract_min(Unwrap(node.left))
         IN  <<sub[1], Some([node EXCEPT !.left = sub[2]])>>

\* fn extract_min(mut node: Box<Node<T>>) -> (T, Option<Box<Node<T>>>)
extract_min(node) ==
    IF node.left = None
    THEN <<node.value, node.right>>
    ELSE LET sub == extract_min(Unwrap(node.left))
             rebalanced == rebalance([node EXCEPT !.left = sub[2]])
         IN  <<sub[1], Some(rebalanced)>>

RECURSIVE remove_node(_, _)
\* remove_node that drops the left child of a removed node without a right child
remove_node_drops_child(node, value) ==
    IF node = None
    THEN <<None, FALSE>>
    ELSE LET n == Unwrap(node)
         IN  IF value = n.value
             THEN IF n.left = None /\ n.right = None THEN <<None, TRUE>>
                  ELSE IF n.right = None THEN <<None, TRUE>>
                  ELSE IF n.left = None THEN <<n.right, TRUE>>
                  ELSE LET ex == extract_min(Unwrap(n.right))
                           new_node == update_height(
                               [value |-> ex[1], left |-> n.left,
                                right |-> ex[2], height |-> 1])
                       IN  <<Some(rebalance(new_node)), TRUE>>
             ELSE LET sub == IF value < n.value THEN remove_node(n.left, value)
                             ELSE remove_node(n.right, value)
                      removed == sub[2]
                      n1 == IF value < n.value THEN [n EXCEPT !.left = sub[1]]
                            ELSE [n EXCEPT !.right = sub[1]]
                      result_node == IF removed THEN rebalance(n1) ELSE n1
                  IN  <<Some(result_node), removed>>

\* remove_node that takes the replacement from the left subtree's minimum
remove_node_min_of_left(node, value) ==
    IF node = None
    THEN <<None, FALSE>>
    ELSE LET n == Unwrap(node)
         IN  IF value = n.value
             THEN IF n.left = None /\ n.right = None THEN <<None, TRUE>>
                  ELSE IF n.right = None THEN <<n.left, TRUE>>
                  ELSE IF n.left = None THEN <<n.right, TRUE>>
                  ELSE LET ex == extract_min(Unwrap(n.left))
                           new_node == update_height(
                               [value |-> ex[1], left |-> ex[2],
                                right |-> n.right, height |-> 1])
                       IN  <<Some(rebalance(new_node)), TRUE>>
             ELSE LET sub == IF value < n.value THEN remove_node(n.left, value)
                             ELSE remove_node(n.right, value)
                      removed == sub[2]
                      n1 == IF value < n.value THEN [n EXCEPT !.left = sub[1]]
                            ELSE [n EXCEPT !.right = sub[1]]
                      result_node == IF removed THEN rebalance(n1) ELSE n1
                  IN  <<Some(result_node), removed>>

\* fn remove_node(node, value) -> (Option<Box<Node<T>>>, bool)
remove_node(node, value) ==
    IF node = None
    THEN <<None, FALSE>>
    ELSE LET n == Unwrap(node)
         IN  IF value = n.value
             THEN IF n.left = None /\ n.right = None THEN <<None, TRUE>>
                  ELSE IF n.right = None THEN <<n.left, TRUE>>
                  ELSE IF n.left = None THEN <<n.right, TRUE>>
                  ELSE LET ex == extract_min(Unwrap(n.right))
                           new_node == update_height(
                               [value |-> ex[1], left |-> n.left,
                                right |-> ex[2], height |-> 1])
                       IN  <<Some(rebalance(new_node)), TRUE>>
             ELSE LET sub == IF value < n.value THEN remove_node(n.left, value)
                             ELSE remove_node(n.right, value)
                      removed == sub[2]
                      n1 == IF value < n.value THEN [n EXCEPT !.left = sub[1]]
                            ELSE [n EXCEPT !.right = sub[1]]
                      result_node == IF removed THEN rebalance(n1) ELSE n1
                  IN  <<Some(result_node), removed>>

\* ---- the calls of rebalance and the unwrap() calls made by one insert or remove

\* rotate_right: `root.left.take().unwrap()` meets None
rotate_right_panics(rt) == rt.left = None

\* rotate_left: `root.right.take().unwrap()` meets None
rotate_left_panics(rt) == rt.right = None

\* rebalance(node) reaches an unwrap() of None, in the order of the calls
rebalance_panics(node) ==
    LET n1 == update_height(node)
        balance == balance_factor(n1)
    IN  IF balance > 1
        THEN LET left_balance ==
                     IF n1.left # None THEN balance_factor(Unwrap(n1.left)) ELSE 0
             IN  IF left_balance < 0
                 THEN \/ n1.left = None
                      \/ rotate_left_panics(Unwrap(n1.left))
                      \/ rotate_right_panics(
                             [n1 EXCEPT !.left = Some(rotate_left(Unwrap(n1.left)))])
                 ELSE rotate_right_panics(n1)
        ELSE IF balance < -1
        THEN LET right_balance ==
                     IF n1.right # None THEN balance_factor(Unwrap(n1.right)) ELSE 0
             IN  IF right_balance > 0
                 THEN \/ n1.right = None
                      \/ rotate_right_panics(Unwrap(n1.right))
                      \/ rotate_left_panics(
                             [n1 EXCEPT !.right = Some(rotate_right(Unwrap(n1.right)))])
                 ELSE rotate_left_panics(n1)
        ELSE FALSE

RECURSIVE insert_node_panics(_, _)
\* insert_node(node, value) reaches an unwrap() of None
insert_node_panics(node, value) ==
    IF node = None THEN FALSE
    ELSE LET n == Unwrap(node)
         IN  IF value = n.value THEN FALSE
             ELSE IF value < n.value
             THEN \/ insert_node_panics(n.left, value)
                  \/ /\ insert_node(n.left, value)[2]
                     /\ rebalance_panics([n EXCEPT !.left = insert_node(n.left, value)[1]])
             ELSE \/ insert_node_panics(n.right, value)
                  \/ /\ insert_node(n.right, value)[2]
                     /\ rebalance_panics([n EXCEPT !.right = insert_node(n.right, value)[1]])

RECURSIVE extract_min_panics(_)
\* extract_min(node) reaches an unwrap() of None
extract_min_panics(node) ==
    IF node.left = None THEN FALSE
    ELSE \/ extract_min_panics(Unwrap(node.left))
         \/ rebalance_panics([node EXCEPT !.left = extract_min(Unwrap(node.left))[2]])

\* the node built at a deletion site with two children, before it is rebalanced
successor_node(n) ==
    update_height([value |-> extract_min(Unwrap(n.right))[1], left |-> n.left,
                   right |-> extract_min(Unwrap(n.right))[2], height |-> 1])

RECURSIVE remove_node_panics(_, _)
\* remove_node(node, value) reaches an unwrap() of None
remove_node_panics(node, value) ==
    IF node = None THEN FALSE
    ELSE LET n == Unwrap(node)
         IN  IF value = n.value
             THEN IF n.left = None \/ n.right = None THEN FALSE
                  ELSE \/ extract_min_panics(Unwrap(n.right))
                       \/ rebalance_panics(successor_node(n))
             ELSE IF value < n.value
             THEN \/ remove_node_panics(n.left, value)
                  \/ /\ remove_node(n.left, value)[2]
                     /\ rebalance_panics([n EXCEPT !.left = remove_node(n.left, value)[1]])
             ELSE \/ remove_node_panics(n.right, value)
                  \/ /\ remove_node(n.right, value)[2]
                     /\ rebalance_panics([n EXCEPT !.right = remove_node(n.right, value)[1]])

RECURSIVE insert_node_rebalanced(_, _)
\* the nodes insert_node(node, value) hands to rebalance
insert_node_rebalanced(node, value) ==
    IF node = None THEN {}
    ELSE LET n == Unwrap(node)
         IN  IF value = n.value THEN {}
             ELSE IF value < n.value
             THEN insert_node_rebalanced(n.left, value)
                  \cup (IF insert_node(n.left, value)[2]
                        THEN {[n EXCEPT !.left = insert_node(n.left, value)[1]]} ELSE {})
             ELSE insert_node_rebalanced(n.right, value)
                  \cup (IF insert_node(n.right, value)[2]
                        THEN {[n EXCEPT !.right = insert_node(n.right, value)[1]]} ELSE {})

RECURSIVE extract_min_rebalanced(_)
\* the nodes extract_min(node) hands to rebalance
extract_min_rebalanced(node) ==
    IF node.left = None THEN {}
    ELSE extract_min_rebalanced(Unwrap(node.left))
         \cup {[node EXCEPT !.left = extract_min(Unwrap(node.left))[2]]}

RECURSIVE remove_node_rebalanced(_, _)
\* the nodes remove_node(node, value) hands to rebalance
remove_node_rebalanced(node, value) ==
    IF node = None THEN {}
    ELSE LET n == Unwrap(node)
         IN  IF value = n.value
             THEN IF n.left = None \/ n.right = None THEN {}
                  ELSE extract_min_rebalanced(Unwrap(n.right)) \cup {successor_node(n)}
             ELSE IF value < n.value
             THEN remove_node_rebalanced(n.left, value)
                  \cup (IF remove_node(n.left, value)[2]
                        THEN {[n EXCEPT !.left = remove_node(n.left, value)[1]]} ELSE {})
             ELSE remove_node_rebalanced(n.right, value)
                  \cup (IF remove_node(n.right, value)[2]
                        THEN {[n EXCEPT !.right = remove_node(n.right, value)[1]]} ELSE {})

RECURSIVE deletion_site(_, _)
\* the node remove_node(node, value) reaches in its Equal arm, None when there is none
deletion_site(node, value) ==
    IF node = None THEN None
    ELSE LET n == Unwrap(node)
         IN  IF value = n.value THEN node
             ELSE IF value < n.value THEN deletion_site(n.left, value)
             ELSE deletion_site(n.right, value)

RECURSIVE contains(_, _)
\* contains that descends to the right on Less
contains_wrong_side(current, value) ==
    IF current = None THEN FALSE
    ELSE LET node == Unwrap(current)
         IN  IF value = node.value THEN TRUE
             ELSE IF value < node.value THEN contains(node.right, value)
             ELSE contains(node.right, value)

\* pub fn contains(&self, value: &T) -> bool, as the loop's descent from `current`
contains(current, value) ==
    IF current = None THEN FALSE
    ELSE LET node == Unwrap(current)
         IN  IF value = node.value THEN TRUE
             ELSE IF value < node.value THEN contains(node.left, value)
             ELSE contains(node.right, value)

\* pub fn len(&self) -> usize
len(sz) == sz

\* pub fn is_empty(&self) -> bool
is_empty(sz) == sz = 0

\* pub fn height(&self) -> u8
height(rt) == node_height(rt)

RECURSIVE check_balanced(_)
\* fn check_balanced(node) -> Option<u8>
check_balanced(node) ==
    IF node = None THEN Some(0)
    ELSE LET n == Unwrap(node)
             l == check_balanced(n.left)
         IN  IF l = None THEN None
             ELSE LET r == check_balanced(n.right)
                  IN  IF r = None THEN None
                      ELSE LET left_height == Unwrap(l)
                               right_height == Unwrap(r)
                               balance == left_height - right_height
                           IN  IF balance > 1 \/ balance < -1
                               THEN None
                               ELSE Some(1 + Max(left_height, right_height))

\* pub fn is_balanced(&self) -> bool
is_balanced(rt) == check_balanced(rt) # None

\* ------------------------------------------------------------------ BinaryTree

\* A Node of src/binary-tree.rs is a record value, left, right.

bt_leaf(value) == Some([value |-> value, left |-> None, right |-> None])

RECURSIVE bt_insert_node(_, _)
\* fn insert_node(mut node, value, size: &mut usize) -> Box<Node<T>>:
\* <<the node returned, whether *size was incremented>>
bt_insert_node(node, value) ==
    IF value < node.value
    THEN IF node.left = None
         THEN <<[node EXCEPT !.left = bt_leaf(value)], TRUE>>
         ELSE <<[node EXCEPT !.left = Some(bt_insert_node(Unwrap(node.left), value)[1])],
                bt_insert_node(Unwrap(node.left), value)[2]>>
    ELSE IF value > node.value
    THEN IF node.right = None
         THEN <<[node EXCEPT !.right = bt_leaf(value)], TRUE>>
         ELSE <<[node EXCEPT !.right = Some(bt_insert_node(Unwrap(node.right), value)[1])],
                bt_insert_node(Unwrap(node.right), value)[2]>>
    ELSE <<node, FALSE>>

\* pub fn insert(&mut self, value: T): the fields <<root, size>> after the call
bt_insert(rt, sz, value) ==
    IF rt = None THEN <<bt_leaf(value), sz + 1>>
    ELSE <<Some(bt_insert_node(Unwrap(rt), value)[1]),
           IF bt_insert_node(Unwrap(rt), value)[2] THEN sz + 1 ELSE sz>>

RECURSIVE bt_contains_node(_, _)
\* fn contains_node(node: &Option<Box<Node<T>>>, value: &T) -> bool
bt_contains_node(node, value) ==
    IF node = None THEN FALSE
    ELSE IF value = Unwrap(node).value THEN TRUE
    ELSE IF value < Unwrap(node).value THEN bt_contains_node(Unwrap(node).left, value)
    ELSE bt_contains_node(Unwrap(node).right, value)

\* pub fn contains(&self, value: &T) -> bool
bt_contains(rt, value) == bt_contains_node(rt, value)

RECURSIVE bt_extract_min(_)
\* extract_min that drops the right subtree of the leftmost node
bt_extract_min_drops_right(node) ==
    IF node.left = None
    THEN <<node.value, None>>
    ELSE <<bt_extract_min(Unwrap(node.left))[1],
           Some([node EXCEPT !.left = bt_extract_min(Unwrap(node.left))[2]])>>

\* fn extract_min(mut node: Box<Node<T>>) -> (T, Option<Box<Node<T>>>)
bt_extract_min(node) ==
    IF node.left = None
    THEN <<node.value, node.right>>
    ELSE <<bt_extract_min(Unwrap(node.left))[1],
           Some([node EXCEPT !.left = bt_extract_min(Unwrap(node.left))[2]])>>

RECURSIVE bt_remove_node(_, _)
\* fn remove_node(node, value) -> (Option<Box<Node<T>>>, bool)
bt_remove_node(node, value) ==
    IF node = None THEN <<None, FALSE>>
    ELSE LET n == Unwrap(node)
         IN  IF value < n.value
             THEN <<Some([n EXCEPT !.left = bt_remove_node(n.left, value)[1]]),
                    bt_remove_node(n.left, value)[2]>>
             ELSE IF value > n.value
             THEN <<Some([n EXCEPT !.right = bt_remove_node(n.right, value)[1]]),
                    bt_remove_node(n.right, value)[2]>>
             ELSE IF n.left = None /\ n.right = None THEN <<None, TRUE>>
             ELSE IF n.right = None THEN <<n.left, TRUE>>
             ELSE IF n.left = None THEN <<n.right, TRUE>>
             ELSE <<Some([value |-> bt_extract_min(Unwrap(n.right))[1],
                          left |-> n.left,
                          right |-> bt_extract_min(Unwrap(n.right))[2]]), TRUE>>

\* pub fn remove(&mut self, value: &T) -> bool: <<root, size, returned bool>>
bt_remove(rt, sz, value) ==
    <<bt_remove_node(rt, value)[1],
      IF bt_remove_node(rt, value)[2] THEN sz - 1 ELSE sz,
      bt_remove_node(rt, value)[2]>>

\* pub fn len(&self) -> usize
bt_len(sz) == sz

\* pub fn clear(&mut self): the fields <<root, size>> after the call
bt_clear(rt, sz) == <<None, 0>>

\* pub fn is_empty(&self) -> bool
bt_is_empty(sz) == sz = 0

\* ------------------------------------------------------------------ LinkedList

\* A Node of src/linked-list.rs is a record data, next; a link is None or Some(node).

\* pub fn push(&mut self, value: T): the fields <<head, size>> after the call
ll_push(hd, sz, value) == <<Some([data |-> value, next |-> hd]), sz + 1>>

\* pub fn pop(&mut self) -> Option<T>: <<head, size, returned value>>
ll_pop(hd, sz) ==
    IF hd = None THEN <<None, sz, None>>
    ELSE <<Unwrap(hd).next, sz - 1, Some(Unwrap(hd).data)>>

RECURSIVE ll_unlink(_, _)
\* remove, from `let mut current` on: `current` is the link, k iterations of the for
\* loop are left; <<the link afterwards, returned value>>
ll_unlink(current, k) ==
    IF current = None THEN <<None, None>>
    ELSE LET node == Unwrap(current)
         IN  IF k > 0
             THEN <<Some([node EXCEPT !.next = ll_unlink(node.next, k - 1)[1]]),
                    ll_unlink(node.next, k - 1)[2]>>
             ELSE IF node.next = None THEN <<current, None>>
             ELSE <<Some([node EXCEPT !.next = Unwrap(node.next).next]),
                    Some(Unwrap(node.next).data)>>

\* the result of remove once the walk has ended: size drops when a target was unlinked
ll_removed(sz, un) == <<un[1], IF un[2] # None THEN sz - 1 ELSE sz, un[2]>>

\* remove whose loop runs index times
ll_remove_walks_index(hd, sz, index) ==
    IF index >= sz THEN <<hd, sz, None>>
    ELSE IF index = 0 THEN ll_pop(hd, sz)
    ELSE ll_removed(sz, ll_unlink(hd, index))

\* pub fn remove(&mut self, index: usize) -> Option<T>: <<head, size, returned value>>
ll_remove(hd, sz, index) ==
    IF index >= sz THEN <<hd, sz, None>>
    ELSE IF index = 0 THEN ll_pop(hd, sz)
    ELSE ll_removed(sz, ll_unlink(hd, index - 1))

RECURSIVE ll_contains(_, _)
\* pub fn contains(&self, value: &T) -> bool, as the loop's walk from `current`
ll_contains(current, value) ==
    IF current = None THEN FALSE
    ELSE IF Unwrap(current).data = value THEN TRUE
    ELSE ll_contains(Unwrap(current).next, value)

\* pub fn len(&self) -> usize
ll_len(sz) == sz

\* pub fn is_empty(&self) -> bool
ll_is_empty(sz) == sz = 0

\* pub fn clear(&mut self): the fields <<head, size>> after the call
ll_clear(hd, sz) == <<None, 0>>

RECURSIVE ll_reverse_loop(_, _)
\* the while loop of reverse, entered with prev and current; the final prev
ll_reverse_loop(prev, current) ==
    IF current = None THEN prev
    ELSE ll_reverse_loop(Some([Unwrap(current) EXCEPT !.next = prev]), Unwrap(current).next)

\* pub fn reverse(&mut self): the fields <<head, size>> after the call
ll_reverse(hd, sz) == <<ll_reverse_loop(None, hd), sz>>

RECURSIVE ll_data(_)
\* the data of the nodes reachable from a link, in order
ll_data(link) ==
    IF link = None THEN <<>>
    ELSE <<Unwrap(link).data>> \o ll_data(Unwrap(link).next)

\* ------------------------------------------------------------------ DoubleLinkedList

\* An allocation Rc<RefCell<Node<T>>> has an id; `nodes` maps the ids of the nodes
\* that have not been dropped to records data, next, prev.  An Rc or a Weak is
\* Some(id); a Weak whose node has been dropped keeps its id and upgrades to None.
\* The list is the record head, tail, length, nodes; a call returns it with the
\* returned value and its status: "ok", "panic" for the panic!() of pop and pop_end,
\* "borrowed" for the panic of RefCell::borrow_mut, or "loop" for a call that never
\* returns.

DlList(head, tail, length, nodes) ==
    [head |-> head, tail |-> tail, length |-> length, nodes |-> nodes]

DlResult(head, tail, length, nodes, ret, status) ==
    [head |-> head, tail |-> tail, length |-> length, nodes |-> nodes,
     ret |-> ret, status |-> status]

\* the outcome of a walk that comes back to a place it has been at
Endless == <<0, 0, 0>>

\* Weak::upgrade
dl_upgrade(nodes, w) == IF w # None /\ Unwrap(w) \in DOMAIN nodes THEN w ELSE None

\* Rc::strong_count: the holders (head and the locals of the call) and the next
\* fields that refer to the node
dl_strong_count(nodes, holders, id) ==
    Cardinality({k \in 1..Len(holders) : holders[k] = Some(id)})
        + Cardinality({j \in DOMAIN nodes : nodes[j].next = Some(id)})

RECURSIVE dl_drop(_, _)
\* Drop for Rc: a node without a strong reference is dropped, with its fields
dl_drop(nodes, holders) ==
    IF \A i \in DOMAIN nodes : dl_strong_count(nodes, holders, i) > 0
    THEN nodes
    ELSE dl_drop([i \in {j \in DOMAIN nodes : dl_strong_count(nodes, holders, j) > 0}
                     |-> nodes[i]], holders)

\* the ids in use: the nodes not dropped and the targets of the Weak references
dl_allocated(list) ==
    DOMAIN list.nodes
        \cup (IF list.tail # None THEN {Unwrap(list.tail)} ELSE {})
        \cup {Unwrap(list.nodes[j].prev) : j \in {i \in DOMAIN list.nodes : list.nodes[i].prev # None}}

\* Rc::new: the id of a new allocation, the least one not in use
dl_new(list) ==
    CHOOSE i \in 1..(Cardinality(dl_allocated(list)) + 1) :
        /\ i \notin dl_allocated(list)
        /\ \A j \in 1..(i - 1) : j \in dl_allocated(list)

\* nodes with one more allocation
dl_with(nodes, id, node) ==
    [i \in DOMAIN nodes \cup {id} |-> IF i = id THEN node ELSE nodes[i]]

\* nodes without the node that try_unwrap has taken apart
dl_without(nodes, id) == [i \in DOMAIN nodes \ {id} |-> nodes[i]]

\* pub fn push(&mut self, data: T), with new_node allocated as id
dl_push_as(list, data, id) ==
    DlResult(Some(id),
             IF list.head # None THEN list.tail ELSE Some(id),
             list.length + 1,
             IF list.head # None
             THEN [dl_with(list.nodes, id, [data |-> data, next |-> list.head, prev |-> None])
                       EXCEPT ![Unwrap(list.head)].prev = Some(id)]
             ELSE dl_with(list.nodes, id, [data |-> data, next |-> None, prev |-> None]),
             None, "ok")

\* pub fn push(&mut self, data: T)
dl_push(list, data) == dl_push_as(list, data, dl_new(list))

\* pub fn push_end(&mut self, data: T), with new_node allocated as id and
\* old_tail the upgraded tail
dl_push_end_as(list, data, id, old_tail) ==
    DlResult(IF old_tail # None THEN list.head ELSE Some(id),
             Some(id),
             list.length + 1,
             dl_drop(IF old_tail # None
                     THEN [dl_with(list.nodes, id,
                                   [data |-> data, next |-> None, prev |-> list.tail])
                               EXCEPT ![Unwrap(old_tail)].next = Some(id)]
                     ELSE dl_with(list.nodes, id,
                                  [data |-> data, next |-> None, prev |-> list.tail]),
                     <<IF old_tail # None THEN list.head ELSE Some(id)>>),
             None, "ok")

\* pub fn push_end(&mut self, data: T)
dl_push_end(list, data) ==
    dl_push_end_as(list, data, dl_new(list), dl_upgrade(list.nodes, list.tail))

\* the match on Rc::try_unwrap(old) at the end of pop and pop_end: head, tail and
\* nodes are those the call has reached, old is the local that holds the node
dl_try_unwrap(head, tail, length, nodes, old) ==
    IF dl_strong_count(dl_drop(nodes, <<head, Some(old)>>), <<head, Some(old)>>, old) = 1
    THEN DlResult(head, tail, length,
                  dl_drop(dl_without(dl_drop(nodes, <<head, Some(old)>>), old), <<head>>),
                  Some(nodes[old].data), "ok")
    ELSE DlResult(head, tail, length, dl_drop(nodes, <<head, Some(old)>>), None, "panic")

\* pop, from the closure on: old_head is the node taken from head, new_head its next
\* (old_head is mutably borrowed as long as the `if let` on its next lasts, so that
\* new_head.borrow_mut() panics when new_head is old_head)
dl_pop_node(list, old_head, new_head) ==
    IF new_head = Some(old_head)
    THEN DlResult(None, list.tail, list.length,
                  dl_drop([list.nodes EXCEPT ![old_head].next = None], <<None>>),
                  None, "borrowed")
    ELSE IF new_head # None
    THEN dl_try_unwrap(new_head, list.tail, list.length - 1,
                       [[list.nodes EXCEPT ![old_head].next = None]
                            EXCEPT ![Unwrap(new_head)].prev = None],
                       old_head)
    ELSE dl_try_unwrap(None, None, list.length - 1,
                       [list.nodes EXCEPT ![old_head].next = None], old_head)

\* pub fn pop(&mut self) -> Option<T>
dl_pop(list) ==
    IF list.head = None
    THEN DlResult(list.head, list.tail, list.length, list.nodes, None, "ok")
    ELSE dl_pop_node(list, Unwrap(list.head), list.nodes[Unwrap(list.head)].next)

\* pop_end, from the closure on: old_tail is the upgraded tail, new_tail the upgraded
\* prev taken from it
dl_pop_end_node(list, old_tail, new_tail) ==
    IF new_tail # None
    THEN dl_try_unwrap(list.head, new_tail, list.length - 1,
                       [[list.nodes EXCEPT ![old_tail].prev = None]
                            EXCEPT ![Unwrap(new_tail)].next = None],
                       old_tail)
    ELSE dl_try_unwrap(None, None, list.length - 1,
                       [list.nodes EXCEPT ![old_tail].prev = None], old_tail)

\* pub fn pop_end(&mut self) -> Option<T>
dl_pop_end(list) ==
    IF dl_upgrade(list.nodes, list.tail) = None
    THEN DlResult(list.head, list.tail, list.length, list.nodes, None, "ok")
    ELSE dl_pop_end_node(list, Unwrap(list.tail),
                         dl_upgrade(list.nodes, list.nodes[Unwrap(list.tail)].prev))

\* pub fn len(&self) -> usize
dl_len(list) == list.length

\* pub fn clear(&mut self)
dl_clear(list) == DlResult(None, None, 0, dl_drop(list.nodes, <<None>>), None, "ok")

RECURSIVE dl_reverse_loop(_, _, _, _, _)
\* the while loop of reverse, entered with current and new_head: <<nodes, new_head>>
\* at its end, Endless when the loop comes back to a state of `seen`
dl_reverse_loop(nodes, head, current, new_head, seen) ==
    IF current = None THEN <<nodes, new_head>>
    ELSE IF <<nodes, current, new_head>> \in seen THEN Endless
    ELSE dl_reverse_loop(
             dl_drop([[nodes EXCEPT ![Unwrap(current)].next =
                                        dl_upgrade(nodes, nodes[Unwrap(current)].prev)]
                          EXCEPT ![Unwrap(current)].prev = new_head],
                     <<head, current, nodes[Unwrap(current)].next>>),
             head, nodes[Unwrap(current)].next, current,
             seen \cup {<<nodes, current, new_head>>})

\* reverse, after its loop: head and tail are exchanged by the old tail's upgrade
dl_reverse_end(list, loop) ==
    IF loop = Endless
    THEN DlResult(list.head, list.tail, list.length, list.nodes, None, "loop")
    ELSE DlResult(loop[2], dl_upgrade(loop[1], list.tail), list.length,
                  dl_drop(loop[1], <<loop[2]>>), None, "ok")

\* pub fn reverse(&mut self)
dl_reverse(list) ==
    dl_reverse_end(list, dl_reverse_loop(list.nodes, list.head, list.head, None, {}))

RECURSIVE dl_find(_, _, _, _)
\* the walk of has and remove_val from current: the first node holding value, None
\* at the end of the list, Endless when the walk comes back to a node of `seen`
dl_find(nodes, current, value, seen) ==
    IF current = None THEN None
    ELSE IF nodes[Unwrap(current)].data = value THEN current
    ELSE IF Unwrap(current) \in seen THEN Endless
    ELSE dl_find(nodes, nodes[Unwrap(current)].next, value, seen \cup {Unwrap(current)})

\* has, with the outcome of its walk
dl_has_found(list, node) ==
    IF node = Endless
    THEN DlResult(list.head, list.tail, list.length, list.nodes, None, "loop")
    ELSE DlResult(list.head, list.tail, list.length, list.nodes, node # None, "ok")

\* pub fn has(&self, value: &T) -> bool
dl_has(list, value) == dl_has_found(list, dl_find(list.nodes, list.head, value, {}))

\* fn remove_node(&mut self, node), with prev upgraded and next cloned
dl_remove_node(list, prev, next) ==
    IF prev # None /\ next # None
    THEN DlResult(list.head, list.tail, list.length - 1,
                  dl_drop([[list.nodes EXCEPT ![Unwrap(prev)].next = next]
                               EXCEPT ![Unwrap(next)].prev = prev], <<list.head>>),
                  TRUE, "ok")
    ELSE IF next # None
    THEN DlResult(next, list.tail, list.length - 1,
                  dl_drop([list.nodes EXCEPT ![Unwrap(next)].prev = None], <<next>>),
                  TRUE, "ok")
    ELSE IF prev # None
    THEN DlResult(list.head, prev, list.length - 1,
                  dl_drop([list.nodes EXCEPT ![Unwrap(prev)].next = None], <<list.head>>),
                  TRUE, "ok")
    ELSE DlResult(None, None, list.length - 1, dl_drop(list.nodes, <<None>>), TRUE, "ok")

\* pub fn remove_val(&mut self, value: &T) -> bool, with the outcome of its walk
dl_remove_found(list, node) ==
    IF node = Endless
    THEN DlResult(list.head, list.tail, list.length, list.nodes, None, "loop")
    ELSE IF node = None
    THEN DlResult(list.head, list.tail, list.length, list.nodes, FALSE, "ok")
    ELSE dl_remove_node(list, dl_upgrade(list.nodes, list.nodes[Unwrap(node)].prev),
                        list.nodes[Unwrap(node)].next)

\* pub fn remove_val(&mut self, value: &T) -> bool
dl_remove_val(list, value) ==
    dl_remove_found(list, dl_find(list.nodes, list.head, value, {}))

RECURSIVE dl_walk(_, _, _)
\* the ids met on the walk along next from a reference, up to the first one met twice
dl_walk(nodes, current, seen) ==
    IF current = None \/ (current # None /\ Unwrap(current) \in seen) THEN <<>>
    ELSE <<Unwrap(current)>>
             \o dl_walk(nodes, nodes[Unwrap(current)].next, seen \cup {Unwrap(current)})

\* the data met on the walk along next from head
dl_forward(list) ==
    [k \in 1..Len(dl_walk(list.nodes, list.head, {})) |->
        list.nodes[dl_walk(list.nodes, list.head, {})[k]].data]

RECURSIVE dl_sorted(_)
\* the ids of a set in increasing order
dl_sorted(ids) ==
    IF ids = {} THEN <<>>
    ELSE <<CHOOSE x \in ids : \A y \in ids : x <= y>>
             \o dl_sorted(ids \ {CHOOSE x \in ids : \A y \in ids : x <= y})

\* the ids in use, those on the walk from head first
dl_order(list) ==
    dl_walk(list.nodes, list.head, {})
        \o dl_sorted(dl_allocated(list)
                        \ {dl_walk(list.nodes, list.head, {})[k] :
                               k \in 1..Len(dl_walk(list.nodes, list.head, {}))})

\* a reference with the id replaced by its place in `order`
dl_placed(order, ref) ==
    IF ref = None THEN None ELSE Some(CHOOSE k \in 1..Len(order) : order[k] = Unwrap(ref))

\* the list with every id replaced by its place in `order`: the addresses of the
\* allocations are of no account, so that lists that differ in them only are one list
dl_renamed(list, order) ==
    [list EXCEPT
        !.head = dl_placed(order, list.head),
        !.tail = dl_placed(order, list.tail),
        !.nodes = [k \in {j \in 1..Len(order) : order[j] \in DOMAIN list.nodes} |->
                      [data |-> list.nodes[order[k]].data,
                       next |-> dl_placed(order, list.nodes[order[k]].next),
                       prev |-> dl_placed(order, list.nodes[order[k]].prev)]]]

\* ------------------------------------------------------------------ helpers for the properties

RECURSIVE InOrder(_)
\* the values of a subtree, left to right
InOrder(node) ==
    IF node = None THEN <<>>
    ELSE LET n == Unwrap(node)
         IN  InOrder(n.left) \o <<n.value>> \o InOrder(n.right)

RECURSIVE NodeCount(_)
\* the number of nodes reachable from a link
NodeCount(node) ==
    IF node = None THEN 0
    ELSE 1 + NodeCount(Unwrap(node).left) + NodeCount(Unwrap(node).right)

RECURSIVE TrueHeight(_)
\* the height recomputed from the structure, height(empty) = 0
TrueHeight(node) ==
    IF node = None THEN 0
    ELSE 1 + Max(TrueHeight(Unwrap(node).left), TrueHeight(Unwrap(node).right))

RECURSIVE Nodes(_)
\* the links (Some(n)) of all nodes of a subtree
Nodes(node) ==
    IF node = None THEN {}
    ELSE {node} \cup Nodes(Unwrap(node).left) \cup Nodes(Unwrap(node).right)

RECURSIVE StoredValues(_)
\* the set of values held by the nodes of a subtree
StoredValues(node) ==
    IF node = None THEN {}
    ELSE {Unwrap(node).value} \cup StoredValues(Unwrap(node).left)
                             \cup StoredValues(Unwrap(node).right)

\* which children the node holding `value` has: "none" when no node holds it
ChildrenOf(node, value) ==
    LET holders == {n \in Nodes(node) : Unwrap(n).value = value}
    IN  IF holders = {} THEN "none"
        ELSE LET n == Unwrap(CHOOSE h \in holders : TRUE)
             IN  IF n.left = None /\ n.right = None THEN "leaf"
                 ELSE IF n.left = None \/ n.right = None THEN "one"
                 ELSE "two"

\* ------------------------------------------------------------------ Calculator: values

\* Result<f64, String>: Ok(v), Err(message) with the name a formatted message
\* carries, or Inexact when the value leaves the modelled range of f64
Ok(v) == [kind |-> "Ok", val |-> v, err |-> "", name |-> <<>>]
Err(msg) == [kind |-> "Err", val |-> 0, err |-> msg, name |-> <<>>]
ErrNamed(msg, nm) == [kind |-> "Err", val |-> 0, err |-> msg, name |-> nm]
Inexact == [kind |-> "Inexact", val |-> 0, err |-> "", name |-> <<>>]
NoResult == [kind |-> "None", val |-> 0, err |-> "", name |-> <<>>]

\* no line built from operands and operators
NoShape == [form |-> "none", a |-> <<>>, op1 |-> <<>>, b |-> <<>>, op2 |-> <<>>, c |-> <<>>]

IsOk(r) == r.kind = "Ok"
IsErr(r) == r.kind = "Err"

Abs(a) == IF a < 0 THEN -a ELSE a

\* an integer result, or Inexact when its magnitude exceeds ExactLimit
Exact(v) == IF Abs(v) <= ExactLimit THEN Ok(v) ELSE Inexact

\* ------------------------------------------------------------------ Calculator: characters

DigitChars == <<"0", "1", "2", "3", "4", "5", "6", "7", "8", "9">>
Digits == {DigitChars[k] : k \in 1..10}
LowerCase == {"a", "b", "c", "d", "e", "f", "g", "h", "i", "j", "k", "l", "m",
              "n", "o", "p", "q", "r", "s", "t", "u", "v", "w", "x", "y", "z"}
UpperCase == {"A", "B", "C", "D", "E", "F", "G", "H", "I", "J", "K", "L", "M",
              "N", "O", "P", "Q", "R", "S", "T", "U", "V", "W", "X", "Y", "Z"}
Letters == LowerCase \cup UpperCase
\* the characters the tokenizer skips as blanks
WhiteSpace == {" ", "\t"}

\* char::is_whitespace, on the ASCII characters a line can hold
TrimSpace == {" ", "\t", "\n", "\r"}

\* char::is_ascii_digit
is_ascii_digit(ch) == ch \in Digits

\* char::is_alphabetic, on the ASCII characters
is_alphabetic(ch) == ch \in Letters

\* char::to_digit(10) : Option<u32>
to_digit(ch) ==
    IF ch \in Digits THEN Some((CHOOSE k \in 1..10 : DigitChars[k] = ch) - 1) ELSE None

RECURSIVE trim_start(_)
trim_start(s) ==
    IF s # <<>> /\ Head(s) \in TrimSpace THEN trim_start(Tail(s)) ELSE s

RECURSIVE trim_end(_)
trim_end(s) ==
    IF s # <<>> /\ s[Len(s)] \in TrimSpace THEN trim_end(SubSeq(s, 1, Len(s) - 1)) ELSE s

\* str::trim
trim(s) == trim_end(trim_start(s))

\* the names the evaluator knows, as character sequences
W_pi == <<"p", "i">>
W_e == <<"e">>
W_phi == <<"p", "h", "i">>
W_tau == <<"t", "a", "u">>
W_sqrt2 == <<"s", "q", "r", "t", "2">>
W_sqrt3 == <<"s", "q", "r", "t", "3">>
W_sin == <<"s", "i", "n">>
W_cos == <<"c", "o", "s">>
W_tan == <<"t", "a", "n">>
W_asin == <<"a", "s", "i", "n">>
W_acos == <<"a", "c", "o", "s">>
W_atan == <<"a", "t", "a", "n">>
W_ln == <<"l", "n">>
W_log2 == <<"l", "o", "g", "2">>
W_log10 == <<"l", "o", "g", "1", "0">>
W_exp == <<"e", "x", "p">>
W_sqrt == <<"s", "q", "r", "t">>
W_round == <<"r", "o", "u", "n", "d">>
W_floor == <<"f", "l", "o", "o", "r">>
W_ceil == <<"c", "e", "i", "l">>
W_abs == <<"a", "b", "s">>

ConstantNames == {W_pi, W_e, W_phi, W_tau, W_sqrt2, W_sqrt3}
KnownFunctions == {W_sin, W_cos, W_tan, W_asin, W_acos, W_atan, W_ln, W_log2,
                   W_log10, W_exp, W_sqrt, W_round, W_floor, W_ceil, W_abs}

\* ------------------------------------------------------------------ Calculator: tokenize

\* enum Token
Token(kind, num, ch, nm) == [kind |-> kind, num |-> num, ch |-> ch, name |-> nm]
TNumber(n) == Token("Number", n, "", <<>>)
TOperator(ch) == Token("Operator", 0, ch, <<>>)
TPower == Token("Power", 0, "", <<>>)
TLeftParen == Token("LeftParen", 0, "", <<>>)
TRightParen == Token("RightParen", 0, "", <<>>)
TFunction(nm) == Token("Function", 0, "", nm)
TMemory(idx) == Token("Memory", idx, "", <<>>)
TConstant(nm) == Token("Constant", 0, "", nm)
TLastResult == Token("LastResult", 0, "", <<>>)
TEOF == Token("EOF", 0, "", <<>>)

RECURSIVE run_end(_, _, _)
\* the inner `while let Some(&ch) = chars.peek()` loops: the index after the
\* run of characters of the set `keep` that starts at i
run_end(chars, i, keep) ==
    IF i <= Len(chars) /\ chars[i] \in keep THEN run_end(chars, i + 1, keep) ELSE i

RECURSIVE digits_value(_, _)
\* the integer a run of digits denotes (acc so far), Inexact beyond ExactLimit
digits_value(ds, acc) ==
    IF ds = <<>> THEN Ok(acc)
    ELSE LET next == acc * 10 + Unwrap(to_digit(Head(ds)))
         IN  IF next > ExactLimit THEN Inexact ELSE digits_value(Tail(ds), next)

\* number.parse::<f64>() of a run of digits and dots
parse_number(number) ==
    LET dots == {k \in 1..Len(number) : number[k] = "."}
        ndigits == Len(number) - Cardinality(dots)
    IN  IF Cardinality(dots) > 1 \/ ndigits = 0
        THEN Err("Invalid number")
        ELSE LET dot == IF dots = {} THEN Len(number) + 1 ELSE CHOOSE k \in dots : TRUE
                 int_part == SubSeq(number, 1, dot - 1)
                 frac_part == SubSeq(number, dot + 1, Len(number))
             IN  IF \E k \in 1..Len(frac_part) : frac_part[k] # "0"
                 THEN Inexact
                 ELSE digits_value(int_part, 0)

\* classify_word, but every two-character word that starts with m is a memory slot
classify_word_loose(word) ==
    IF word \in ConstantNames THEN TConstant(word)
    ELSE IF Head(word) = "m" /\ Len(word) = 2
         THEN IF to_digit(word[2]) # None /\ Unwrap(to_digit(word[2])) <= 9
              THEN TMemory(Unwrap(to_digit(word[2])))
              ELSE TMemory(0)
         ELSE TFunction(word)

\* the classification of an identifier
classify_word(word) ==
    IF word \in ConstantNames THEN TConstant(word)
    ELSE IF Head(word) = "m" /\ Len(word) = 2
         THEN IF to_digit(word[2]) # None /\ Unwrap(to_digit(word[2])) <= 9
              THEN TMemory(Unwrap(to_digit(word[2])))
              ELSE TFunction(word)
         ELSE TFunction(word)

\* ch.is_ascii_digit() || ch == '.'
NumberChars == Digits \cup {"."}

\* ch.is_alphabetic() || ch.is_ascii_digit()
WordChars == Letters \cup Digits

RECURSIVE tokenize_from(_, _, _)
\* the `while let Some(&ch) = chars.peek()` loop of tokenize, from index i
tokenize_from(chars, i, tokens) ==
    IF i > Len(chars)
    THEN [kind |-> "Ok", tokens |-> Append(tokens, TEOF), err |-> ""]
    ELSE LET ch == chars[i]
         IN  IF ch \in WhiteSpace THEN tokenize_from(chars, i + 1, tokens)
             ELSE IF ch \in NumberChars
             THEN LET j == run_end(chars, i, NumberChars)
                      n == parse_number(SubSeq(chars, i, j - 1))
                  IN  IF IsOk(n) THEN tokenize_from(chars, j, Append(tokens, TNumber(n.val)))
                      ELSE [kind |-> n.kind, tokens |-> <<>>, err |-> n.err]
             ELSE IF ch \in {"+", "-", "/", "%"}
             THEN tokenize_from(chars, i + 1, Append(tokens, TOperator(ch)))
             ELSE IF ch = "*"
             THEN IF i + 1 <= Len(chars) /\ chars[i + 1] = "*"
                  THEN tokenize_from(chars, i + 2, Append(tokens, TPower))
                  ELSE tokenize_from(chars, i + 1, Append(tokens, TOperator("*")))
             ELSE IF ch = "(" THEN tokenize_from(chars, i + 1, Append(tokens, TLeftParen))
             ELSE IF ch = ")" THEN tokenize_from(chars, i + 1, Append(tokens, TRightParen))
             ELSE IF ch = "_" THEN tokenize_from(chars, i + 1, Append(tokens, TLastResult))
             ELSE IF ch = "^" THEN tokenize_from(chars, i + 1, Append(tokens, TPower))
             ELSE IF ch \in Letters
             THEN LET j == run_end(chars, i, WordChars)
                  IN  tokenize_from(chars, j,
                                    Append(tokens, classify_word(SubSeq(chars, i, j - 1))))
             ELSE tokenize_from(chars, i + 1, tokens)

\* fn tokenize(&self, input: &str) -> Result<Vec<Token>, String>
tokenize(inp) == tokenize_from(trim(inp), 1, <<>>)

\* ------------------------------------------------------------------ Calculator: f64 arithmetic

\* left + right
f64_add(a, b) == Exact(a + b)

\* left - right
f64_sub(a, b) == Exact(a - b)

\* left * right
f64_mul(a, b) ==
    IF a = 0 \/ b = 0 THEN Ok(0)
    ELSE IF Abs(a) > ExactLimit \div Abs(b) THEN Inexact
    ELSE Ok(a * b)

\* left / right, for right # 0: exact when the quotient is an integer
f64_div(a, b) ==
    IF Abs(a) % Abs(b) # 0 THEN Inexact
    ELSE IF (a < 0) = (b < 0) THEN Ok(Abs(a) \div Abs(b))
    ELSE Ok(-(Abs(a) \div Abs(b)))

\* left % right, for right # 0: the remainder of the truncated division,
\* with the sign of the dividend
f64_rem(a, b) ==
    IF a < 0 THEN Ok(-(Abs(a) % Abs(b))) ELSE Ok(a % Abs(b))

\* -value
f64_neg(a) == Ok(-a)

RECURSIVE pow_acc(_, _, _)
\* acc * a^b for b >= 0, Inexact as soon as the product leaves the range
pow_acc(a, b, acc) ==
    IF b = 0 THEN Ok(acc)
    ELSE LET m == f64_mul(acc, a)
         IN  IF IsOk(m) THEN pow_acc(a, b - 1, m.val) ELSE Inexact

\* left.powf(right)
powf(a, b) ==
    IF b = 0 \/ a = 1 THEN Ok(1)
    ELSE IF a = -1 THEN (IF b % 2 = 0 THEN Ok(1) ELSE Ok(-1))
    ELSE IF a = 0 THEN (IF b > 0 THEN Ok(0) ELSE Inexact)
    ELSE IF b < 0 THEN Inexact
    ELSE pow_acc(a, b, 1)

\* arg.sqrt(), for arg >= 0: exact on the perfect squares
f64_sqrt(a) ==
    IF \E r \in 0..a : r * r = a
    THEN Ok(CHOOSE r \in 0..a : r * r = a)
    ELSE Inexact

\* the `match name.as_str()` that applies a known function to its argument
apply_function(nm, arg) ==
    IF nm = W_sin THEN (IF arg = 0 THEN Ok(0) ELSE Inexact)
    ELSE IF nm = W_cos THEN (IF arg = 0 THEN Ok(1) ELSE Inexact)
    ELSE IF nm = W_tan THEN (IF arg = 0 THEN Ok(0) ELSE Inexact)
    ELSE IF nm = W_asin
    THEN IF arg < -1 \/ arg > 1 THEN Err("asin requires argument between -1 and 1")
         ELSE IF arg = 0 THEN Ok(0) ELSE Inexact
    ELSE IF nm = W_acos
    THEN IF arg < -1 \/ arg > 1 THEN Err("acos requires argument between -1 and 1")
         ELSE IF arg = 1 THEN Ok(0) ELSE Inexact
    ELSE IF nm = W_atan THEN (IF arg = 0 THEN Ok(0) ELSE Inexact)
    ELSE IF nm = W_ln
    THEN IF arg <= 0 THEN Err("ln requires positive argument")
         ELSE IF arg = 1 THEN Ok(0) ELSE Inexact
    ELSE IF nm = W_log2
    THEN IF arg <= 0 THEN Err("log2 requires positive argument")
         ELSE IF arg = 1 THEN Ok(0) ELSE Inexact
    ELSE IF nm = W_log10
    THEN IF arg <= 0 THEN Err("log10 requires positive argument")
         ELSE IF arg = 1 THEN Ok(0) ELSE Inexact
    ELSE IF nm = W_exp THEN (IF arg = 0 THEN Ok(1) ELSE Inexact)
    ELSE IF nm = W_sqrt
    THEN IF arg < 0 THEN Err("sqrt requires non-negative argument")
         ELSE IF arg > SqrtLimit THEN Inexact ELSE f64_sqrt(arg)
    ELSE IF nm \in {W_round, W_floor, W_ceil} THEN Ok(arg)
    ELSE Ok(Abs(arg))

\* ------------------------------------------------------------------ Calculator: parser

\* what a parse function leaves: its Result and the position it moved *pos to
P(r, p) == [res |-> r, pos |-> p]

RECURSIVE parse_addition(_, _, _, _)
RECURSIVE addition_loop(_, _, _, _, _)
RECURSIVE parse_multiplication(_, _, _, _)
RECURSIVE multiplication_loop(_, _, _, _, _)
RECURSIVE parse_power(_, _, _, _)
RECURSIVE parse_unary(_, _, _, _)
RECURSIVE parse_factor(_, _, _, _)

\* parse_factor after `self.parse_addition(tokens, pos)?` left r inside
\* parentheses: the closing parenthesis, then the function nm if there is one
close_paren(tokens, nm, r) ==
    IF ~IsOk(r.res) THEN r
    ELSE IF r.pos >= Len(tokens) \/ tokens[r.pos + 1] # TRightParen
    THEN P(Err("Expected closing parenthesis"), r.pos)
    ELSE IF nm = <<>> THEN P(r.res, r.pos + 1)
    ELSE P(apply_function(nm, r.res.val), r.pos + 1)

\* the arm of parse_factor for the token t at pos
factor_arm(mem, last, tokens, pos, t) ==
    IF t.kind = "Number" THEN P(Ok(t.num), pos + 1)
    ELSE IF t.kind = "LeftParen"
    THEN close_paren(tokens, <<>>, parse_addition(mem, last, tokens, pos + 1))
    ELSE IF t.kind = "Function"
    THEN IF t.name \notin KnownFunctions
         THEN P(ErrNamed("Unknown function", t.name), pos + 1)
         ELSE IF pos + 1 >= Len(tokens) \/ tokens[pos + 2] # TLeftParen
         THEN P(ErrNamed("Function requires parentheses", t.name), pos + 1)
         ELSE close_paren(tokens, t.name, parse_addition(mem, last, tokens, pos + 2))
    ELSE IF t.kind = "Memory" THEN P(Exact(mem[t.num]), pos + 1)
    ELSE IF t.kind = "Constant"
    THEN IF t.name \in ConstantNames THEN P(Inexact, pos + 1)
         ELSE P(ErrNamed("Unknown constant", t.name), pos + 1)
    ELSE IF t.kind = "LastResult" THEN P(Exact(last), pos + 1)
    ELSE P(Err("Expected number, function, constant, memory location, _, or opening parenthesis"), pos)

\* fn parse_factor
parse_factor(mem, last, tokens, pos) ==
    IF pos >= Len(tokens) THEN P(Err("Unexpected end of expression"), pos)
    ELSE factor_arm(mem, last, tokens, pos, tokens[pos + 1])

\* Ok(-self.parse_unary(tokens, pos)?)
negated(r) == IF IsOk(r.res) THEN P(f64_neg(r.res.val), r.pos) ELSE r

\* parse_unary, but the minus applies to a whole power expression
parse_unary_over_power(mem, last, tokens, pos) ==
    IF pos < Len(tokens) /\ tokens[pos + 1] = TOperator("-")
    THEN negated(parse_power(mem, last, tokens, pos + 1))
    ELSE IF pos < Len(tokens) /\ tokens[pos + 1] = TOperator("+")
    THEN parse_unary(mem, last, tokens, pos + 1)
    ELSE parse_factor(mem, last, tokens, pos)

\* fn parse_unary
parse_unary(mem, last, tokens, pos) ==
    IF pos < Len(tokens) /\ tokens[pos + 1] = TOperator("-")
    THEN negated(parse_unary(mem, last, tokens, pos + 1))
    ELSE IF pos < Len(tokens) /\ tokens[pos + 1] = TOperator("+")
    THEN parse_unary(mem, last, tokens, pos + 1)
    ELSE parse_factor(mem, last, tokens, pos)

\* Ok(left.powf(right)), after `self.parse_power(tokens, pos)?` left right
raised(left, right) ==
    IF ~IsOk(right.res) THEN right
    ELSE P(powf(left.res.val, right.res.val), right.pos)

\* parse_power after the exponent is parsed as a unary expression only
power_rest_flat(mem, last, tokens, left) ==
    IF ~IsOk(left.res) THEN left
    ELSE IF left.pos < Len(tokens) /\ tokens[left.pos + 1] = TPower
    THEN raised(left, parse_unary(mem, last, tokens, left.pos + 1))
    ELSE left

\* parse_power after `self.parse_unary(tokens, pos)?` left its value and position
power_rest(mem, last, tokens, left) ==
    IF ~IsOk(left.res) THEN left
    ELSE IF left.pos < Len(tokens) /\ tokens[left.pos + 1] = TPower
    THEN raised(left, parse_power(mem, last, tokens, left.pos + 1))
    ELSE left

\* fn parse_power
parse_power(mem, last, tokens, pos) ==
    power_rest(mem, last, tokens, parse_unary(mem, last, tokens, pos))

\* one arm of parse_multiplication, but a zero divisor of % is reported as a
\* division by zero
multiplication_arm_one_message(ch, left, right) ==
    IF ~IsOk(right.res) THEN right
    ELSE IF ch = "*" THEN P(f64_mul(left, right.res.val), right.pos)
    ELSE IF right.res.val = 0 THEN P(Err("Division by zero"), right.pos)
    ELSE IF ch = "/" THEN P(f64_div(left, right.res.val), right.pos)
    ELSE P(f64_rem(left, right.res.val), right.pos)

\* one arm of the match in parse_multiplication, after
\* `self.parse_power(tokens, pos)?` left the right operand: the new value of left
multiplication_arm(ch, left, right) ==
    IF ~IsOk(right.res) THEN right
    ELSE IF ch = "*" THEN P(f64_mul(left, right.res.val), right.pos)
    ELSE IF ch = "/"
    THEN IF right.res.val = 0 THEN P(Err("Division by zero"), right.pos)
         ELSE P(f64_div(left, right.res.val), right.pos)
    ELSE IF right.res.val = 0 THEN P(Err("Modulo by zero"), right.pos)
         ELSE P(f64_rem(left, right.res.val), right.pos)

\* parse_multiplication with left computed: return on an error, else loop on
multiplication_next(mem, last, tokens, left) ==
    IF ~IsOk(left.res) THEN left
    ELSE multiplication_loop(mem, last, tokens, left.pos, left.res.val)

\* the `while *pos < tokens.len()` loop of parse_multiplication
multiplication_loop(mem, last, tokens, pos, left) ==
    IF pos < Len(tokens)
       /\ tokens[pos + 1] \in {TOperator("*"), TOperator("/"), TOperator("%")}
    THEN multiplication_next(mem, last, tokens,
             multiplication_arm(tokens[pos + 1].ch, left,
                                parse_power(mem, last, tokens, pos + 1)))
    ELSE P(Ok(left), pos)

\* fn parse_multiplication
parse_multiplication(mem, last, tokens, pos) ==
    multiplication_next(mem, last, tokens, parse_power(mem, last, tokens, pos))

\* one arm of the match in parse_addition, after
\* `self.parse_multiplication(tokens, pos)?` left the right operand
addition_arm(ch, left, right) ==
    IF ~IsOk(right.res) THEN right
    ELSE IF ch = "+" THEN P(f64_add(left, right.res.val), right.pos)
    ELSE P(f64_sub(left, right.res.val), right.pos)

\* parse_addition with left computed: return on an error, else loop on
addition_next(mem, last, tokens, left) ==
    IF ~IsOk(left.res) THEN left
    ELSE addition_loop(mem, last, tokens, left.pos, left.res.val)

\* addition_loop, but the right operand of + and - is a power expression
addition_loop_flat(mem, last, tokens, pos, left) ==
    IF pos < Len(tokens) /\ tokens[pos + 1] \in {TOperator("+"), TOperator("-")}
    THEN addition_next(mem, last, tokens,
             addition_arm(tokens[pos + 1].ch, left,
                          parse_power(mem, last, tokens, pos + 1)))
    ELSE P(Ok(left), pos)

\* the `while *pos < tokens.len()` loop of parse_addition
addition_loop(mem, last, tokens, pos, left) ==
    IF pos < Len(tokens) /\ tokens[pos + 1] \in {TOperator("+"), TOperator("-")}
    THEN addition_next(mem, last, tokens,
             addition_arm(tokens[pos + 1].ch, left,
                          parse_multiplication(mem, last, tokens, pos + 1)))
    ELSE P(Ok(left), pos)

\* fn parse_addition
parse_addition(mem, last, tokens, pos) ==
    addition_next(mem, last, tokens, parse_multiplication(mem, last, tokens, pos))

\* fn parse_expression
parse_expression(mem, last, tokens, pos) == parse_addition(mem, last, tokens, pos)

\* ------------------------------------------------------------------ Calculator: commands

\* is_memory_save, but any line that starts with m and a digit is a store
is_memory_save_prefix(inp) ==
    LET s == trim(inp)
    IN  IF Len(s) >= 2 /\ s[1] = "m" /\ to_digit(s[2]) # None /\ Unwrap(to_digit(s[2])) <= 9
        THEN to_digit(s[2])
        ELSE None

\* is_memory_clear, but the slot is the one after the digit
is_memory_clear_next(inp) ==
    LET s == trim(inp)
    IN  IF Len(s) = 2 /\ s[1] = "c" /\ to_digit(s[2]) # None /\ Unwrap(to_digit(s[2])) <= 9
        THEN Some((Unwrap(to_digit(s[2])) + 1) % 10)
        ELSE None

\* fn is_memory_save(&self, input: &str) -> Option<usize>
is_memory_save(inp) ==
    LET s == trim(inp)
    IN  IF Len(s) = 2 /\ s[1] = "m" /\ to_digit(s[2]) # None /\ Unwrap(to_digit(s[2])) <= 9
        THEN to_digit(s[2])
        ELSE None

\* fn is_memory_clear(&self, input: &str) -> Option<usize>
is_memory_clear(inp) ==
    LET s == trim(inp)
    IN  IF Len(s) = 2 /\ s[1] = "c" /\ to_digit(s[2]) # None /\ Unwrap(to_digit(s[2])) <= 9
        THEN to_digit(s[2])
        ELSE None

\* enum Command, with the slot index or the expression it carries
Command(kind, idx, expr) == [kind |-> kind, idx |-> idx, expr |-> expr]

W_q == <<"q">>
W_quit == <<"q", "u", "i", "t">>
W_exit == <<"e", "x", "i", "t">>
W_question == <<"?">>
W_help == <<"h", "e", "l", "p">>
W_clear == <<"c", "l", "e", "a", "r">>

\* fn parse_command(&self, input: &str) -> Command, with classify_input
parse_command(inp) ==
    LET s == trim(inp)
    IN  IF s \in {W_q, W_quit, W_exit} THEN Command("Exit", 0, <<>>)
        ELSE IF s \in {W_question, W_help} THEN Command("Help", 0, <<>>)
        ELSE IF s = W_clear THEN Command("ClearResult", 0, <<>>)
        ELSE IF is_memory_save(s) # None
        THEN Command("SaveMemory", Unwrap(is_memory_save(s)), <<>>)
        ELSE IF is_memory_clear(s) # None
        THEN Command("ClearMemory", Unwrap(is_memory_clear(s)), <<>>)
        ELSE Command("Evaluate", 0, s)

\* what evaluate returns and the memory and last_result it leaves
Outcome(r, mem, last) == [res |-> r, memory |-> mem, last_result |-> last]

\* the end of evaluate, but the result is committed before the trailing tokens
\* are looked at
evaluate_end_commits_early(mem, last, tokens, r) ==
    IF ~IsOk(r.res) THEN Outcome(r.res, mem, last)
    ELSE IF r.pos < Len(tokens) - 1
    THEN Outcome(Err("Unexpected tokens at end of expression"), mem, r.res.val)
    ELSE Outcome(r.res, mem, r.res.val)

\* the end of evaluate, but a successful expression leaves last_result as it was
evaluate_end_keeps_last(mem, last, tokens, r) ==
    IF ~IsOk(r.res) THEN Outcome(r.res, mem, last)
    ELSE IF r.pos < Len(tokens) - 1
    THEN Outcome(Err("Unexpected tokens at end of expression"), mem, last)
    ELSE Outcome(r.res, mem, last)

\* the end of evaluate, but tokens left after the expression are ignored
evaluate_end_ignores_rest(mem, last, tokens, r) ==
    IF ~IsOk(r.res) THEN Outcome(r.res, mem, last)
    ELSE Outcome(r.res, mem, r.res.val)

\* evaluate after `self.parse_expression(&tokens, &mut pos)?` left r: the check
\* for trailing tokens and the assignment of last_result
evaluate_end(mem, last, tokens, r) ==
    IF ~IsOk(r.res) THEN Outcome(r.res, mem, last)
    ELSE IF r.pos < Len(tokens) - 1
    THEN Outcome(Err("Unexpected tokens at end of expression"), mem, last)
    ELSE Outcome(r.res, mem, r.res.val)

\* evaluate after `self.tokenize(input)?` left t
evaluate_tokens(mem, last, t) ==
    IF t.kind # "Ok"
    THEN Outcome([kind |-> t.kind, val |-> 0, err |-> t.err, name |-> <<>>], mem, last)
    ELSE evaluate_end(mem, last, t.tokens, parse_expression(mem, last, t.tokens, 0))

\* the memory save path of evaluate, for the slot idx
evaluate_save(mem, last, idx) == Outcome(Ok(last), [mem EXCEPT ![idx] = last], last)

\* fn evaluate(&mut self, input: &str) -> Result<f64, String>: the result and
\* the memory and last_result it leaves
evaluate(mem, last, inp) ==
    IF is_memory_save(inp) # None
    THEN evaluate_save(mem, last, Unwrap(is_memory_save(inp)))
    ELSE evaluate_tokens(mem, last, tokenize(inp))

\* ------------------------------------------------------------------ Calculator: the parser, call by call

\* The parse functions once more, as the steps of a machine: a frame is a call that
\* has not returned, with the function, the place the call has reached, and its
\* locals (left, the operator or the function name matched).  A step runs the
\* innermost call from where it stands to its next call or to its return.  A value
\* outside the modelled range of f64 is carried as Inexact, and a test on it
\* (right == 0.0, the domain of a function) has both outcomes.

Frame(fn, at, left, ch, nm) == [fn |-> fn, at |-> at, left |-> left, ch |-> ch, name |-> nm]

\* a call just made
Entered(fn) == Frame(fn, "entry", NoResult, "", <<>>)

\* the grammar level of a parse function
Level(fn) ==
    IF fn = "parse_expression" THEN 6
    ELSE IF fn = "parse_addition" THEN 5
    ELSE IF fn = "parse_multiplication" THEN 4
    ELSE IF fn = "parse_power" THEN 3
    ELSE IF fn = "parse_unary" THEN 2
    ELSE IF fn = "parse_factor" THEN 1
    ELSE 7

\* what a step leaves: the frames that take the place of the innermost one (none
\* when it returns, itself and the callee when it calls), *pos, and the Result returned
Calls(f, fn, pos) == [top |-> <<f, Entered(fn)>>, pos |-> pos, ret |-> NoResult]
Returns(r, pos) == [top |-> <<>>, pos |-> pos, ret |-> r]

\* a thread that has panicked
Panic(msg) == [kind |-> "Panic", val |-> 0, err |-> msg, name |-> <<>>]

\* fn parse_expression
step_expression(f, ret, pos) ==
    IF f.at = "entry"
    THEN {Calls([f EXCEPT !.at = "addition"], "parse_addition", pos)}
    ELSE {Returns(ret, pos)}

\* the `while *pos < tokens.len()` loop of parse_addition, at its test with left
addition_while(f, left, tokens, pos) ==
    IF pos < Len(tokens) /\ tokens[pos + 1] \in {TOperator("+"), TOperator("-")}
    THEN {Calls([f EXCEPT !.at = "right", !.left = left, !.ch = tokens[pos + 1].ch],
                "parse_multiplication", pos + 1)}
    ELSE {Returns(left, pos)}

\* left += right and left -= right
addition_value(ch, left, right) ==
    IF ~(IsOk(left) /\ IsOk(right)) THEN Inexact
    ELSE IF ch = "+" THEN f64_add(left.val, right.val)
    ELSE f64_sub(left.val, right.val)

\* fn parse_addition
step_addition(f, ret, tokens, pos) ==
    IF f.at = "entry"
    THEN {Calls([f EXCEPT !.at = "left"], "parse_multiplication", pos)}
    ELSE IF IsErr(ret) THEN {Returns(ret, pos)}
    ELSE IF f.at = "left" THEN addition_while(f, ret, tokens, pos)
    ELSE addition_while(f, addition_value(f.ch, f.left, ret), tokens, pos)

\* the `while *pos < tokens.len()` loop of parse_multiplication, at its test with left
multiplication_while(f, left, tokens, pos) ==
    IF pos < Len(tokens)
       /\ tokens[pos + 1] \in {TOperator("*"), TOperator("/"), TOperator("%")}
    THEN {Calls([f EXCEPT !.at = "right", !.left = left, !.ch = tokens[pos + 1].ch],
                "parse_power", pos + 1)}
    ELSE {Returns(left, pos)}

\* left *= right, left /= right and left %= right, for right # 0
multiplication_value(ch, left, right) ==
    IF ~(IsOk(left) /\ IsOk(right)) THEN Inexact
    ELSE IF ch = "*" THEN f64_mul(left.val, right.val)
    ELSE IF ch = "/" THEN f64_div(left.val, right.val)
    ELSE f64_rem(left.val, right.val)

\* the message of `if right == 0.0`
zero_message(ch) == IF ch = "/" THEN Err("Division by zero") ELSE Err("Modulo by zero")

\* fn parse_multiplication
step_multiplication(f, ret, tokens, pos) ==
    IF f.at = "entry"
    THEN {Calls([f EXCEPT !.at = "left"], "parse_power", pos)}
    ELSE IF IsErr(ret) THEN {Returns(ret, pos)}
    ELSE IF f.at = "left" THEN multiplication_while(f, ret, tokens, pos)
    ELSE IF f.ch = "*"
    THEN multiplication_while(f, multiplication_value(f.ch, f.left, ret), tokens, pos)
    ELSE IF IsOk(ret) /\ ret.val = 0 THEN {Returns(zero_message(f.ch), pos)}
    ELSE IF IsOk(ret)
    THEN multiplication_while(f, multiplication_value(f.ch, f.left, ret), tokens, pos)
    ELSE {Returns(zero_message(f.ch), pos)}
             \cup multiplication_while(f, Inexact, tokens, pos)

\* fn parse_power
step_power(f, ret, tokens, pos) ==
    IF f.at = "entry"
    THEN {Calls([f EXCEPT !.at = "left"], "parse_unary", pos)}
    ELSE IF IsErr(ret) THEN {Returns(ret, pos)}
    ELSE IF f.at = "left"
    THEN IF pos < Len(tokens) /\ tokens[pos + 1] = TPower
         THEN {Calls([f EXCEPT !.at = "right", !.left = ret], "parse_power", pos + 1)}
         ELSE {Returns(ret, pos)}
    ELSE IF IsOk(f.left) /\ IsOk(ret) THEN {Returns(powf(f.left.val, ret.val), pos)}
    ELSE {Returns(Inexact, pos)}

\* fn parse_unary
step_unary(f, ret, tokens, pos) ==
    IF f.at = "entry"
    THEN IF pos < Len(tokens) /\ tokens[pos + 1] = TOperator("-")
         THEN {Calls([f EXCEPT !.at = "minus"], "parse_unary", pos + 1)}
         ELSE IF pos < Len(tokens) /\ tokens[pos + 1] = TOperator("+")
         THEN {Calls([f EXCEPT !.at = "plus"], "parse_unary", pos + 1)}
         ELSE {Calls([f EXCEPT !.at = "factor"], "parse_factor", pos)}
    ELSE IF f.at = "minus" /\ IsOk(ret) THEN {Returns(f64_neg(ret.val), pos)}
    ELSE {Returns(ret, pos)}

\* the outcomes of the `match name.as_str()` of parse_factor on the argument arg
function_outcomes(nm, arg) ==
    IF IsOk(arg) THEN {apply_function(nm, arg.val)}
    ELSE IF IsErr(apply_function(nm, -2)) THEN {Inexact, apply_function(nm, -2)}
    ELSE {Inexact}

\* parse_factor at its match on the token t at pos
factor_match(f, mem, last, tokens, pos, t) ==
    IF t.kind = "Number" THEN {Returns(Ok(t.num), pos + 1)}
    ELSE IF t.kind = "LeftParen"
    THEN {Calls([f EXCEPT !.at = "paren"], "parse_addition", pos + 1)}
    ELSE IF t.kind = "Function"
    THEN IF t.name \notin KnownFunctions
         THEN {Returns(ErrNamed("Unknown function", t.name), pos + 1)}
         ELSE IF pos + 1 >= Len(tokens) \/ tokens[pos + 2] # TLeftParen
         THEN {Returns(ErrNamed("Function requires parentheses", t.name), pos + 1)}
         ELSE {Calls([f EXCEPT !.at = "argument", !.name = t.name],
                     "parse_addition", pos + 2)}
    ELSE IF t.kind = "Memory" THEN {Returns(Exact(mem[t.num]), pos + 1)}
    ELSE IF t.kind = "Constant"
    THEN IF t.name \in ConstantNames THEN {Returns(Inexact, pos + 1)}
         ELSE {Returns(ErrNamed("Unknown constant", t.name), pos + 1)}
    ELSE IF t.kind = "LastResult" THEN {Returns(Exact(last), pos + 1)}
    ELSE {Returns(Err("Expected number, function, constant, memory location, _, or opening parenthesis"), pos)}

\* step_factor, but the sentinel is taken for the number 0 and consumed
step_factor_takes_sentinel(f, ret, mem, last, tokens, pos) ==
    IF f.at = "entry"
    THEN IF pos >= Len(tokens) THEN {Returns(Err("Unexpected end of expression"), pos)}
         ELSE IF tokens[pos + 1] = TEOF THEN {Returns(Ok(0), pos + 1)}
         ELSE factor_match(f, mem, last, tokens, pos, tokens[pos + 1])
    ELSE IF IsErr(ret) THEN {Returns(ret, pos)}
    ELSE IF pos >= Len(tokens) \/ tokens[pos + 1] # TRightParen
    THEN {Returns(Err("Expected closing parenthesis"), pos)}
    ELSE IF f.at = "paren" THEN {Returns(ret, pos + 1)}
    ELSE {Returns(r, pos + 1) : r \in function_outcomes(f.name, ret)}

\* fn parse_factor
step_factor(f, ret, mem, last, tokens, pos) ==
    IF f.at = "entry"
    THEN IF pos >= Len(tokens) THEN {Returns(Err("Unexpected end of expression"), pos)}
         ELSE factor_match(f, mem, last, tokens, pos, tokens[pos + 1])
    ELSE IF IsErr(ret) THEN {Returns(ret, pos)}
    ELSE IF pos >= Len(tokens) \/ tokens[pos + 1] # TRightParen
    THEN {Returns(Err("Expected closing parenthesis"), pos)}
    ELSE IF f.at = "paren" THEN {Returns(ret, pos + 1)}
    ELSE {Returns(r, pos + 1) : r \in function_outcomes(f.name, ret)}

\* the end of evaluate, from the return of parse_expression on: the Result and the
\* last_result it leaves (`tokens.len() - 1` on an empty Vec panics in a build with
\* overflow checks and wraps to usize::MAX in one without; a value outside the
\* modelled range is not stored)
evaluate_outcomes(last, tokens, ret, pos) ==
    IF IsErr(ret) THEN {<<ret, last>>}
    ELSE IF Len(tokens) = 0
    THEN {<<Panic("attempt to subtract with overflow"), last>>,
          <<Err("Unexpected tokens at end of expression"), last>>}
    ELSE IF pos < Len(tokens) - 1
    THEN {<<Err("Unexpected tokens at end of expression"), last>>}
    ELSE IF IsOk(ret) THEN {<<ret, ret.val>>}
    ELSE {<<ret, last>>}

\* ------------------------------------------------------------------ the public methods as steps

\* pub fn new() -> Self
AvlNew ==
    /\ root = None
    /\ size = 0
    /\ lastOp = "new"
    /\ lastArg = 0
    /\ lastRet = FALSE
    /\ wasIn = FALSE
    /\ lastCase = "none"
    /\ S = {}
    /\ root2 = None
    /\ size2 = 0
    /\ S2 = {}
    /\ nInsert = [v \in CountValues |-> 0]
    /\ nInsertAbsent = [v \in CountValues |-> 0]
    /\ nRemoveTrue = [v \in CountValues |-> 0]
    /\ insSinceClear = 0
    /\ remSinceClear = 0
    /\ nOps = 0

\* the other structures after their new(): BinaryTree, LinkedList, DoubleLinkedList;
\* no call of evaluate is under way
MoreNew ==
    /\ panicked = FALSE
    /\ rootBefore = None
    /\ bt_root = None
    /\ bt_size = 0
    /\ ll_head = None
    /\ ll_size = 0
    /\ llOp = "new"
    /\ llArg = 0
    /\ llRet = None
    /\ dl_head = None
    /\ dl_tail = None
    /\ dl_length = 0
    /\ dl_nodes = <<>>
    /\ dlOp = "new"
    /\ dlArg = 0
    /\ dlRet = None
    /\ dlStatus = "ok"
    /\ ev_tokens = <<>>
    /\ ev_pos = 0
    /\ ev_frames = <<>>
    /\ ev_ret = NoResult

\* fn new() -> Self
CalcNew ==
    /\ memory = [i \in 0..9 |-> 0]
    /\ last_result = 0

\* nothing has been evaluated or read yet
CalcIdle ==
    /\ input = <<>>
    /\ result = NoResult
    /\ calcOp = "new"
    /\ calcArg = 0
    /\ stored3 = None
    /\ pc = "idle"
    /\ eof = FALSE
    /\ nRead = 0
    /\ shape = NoShape

Init == AvlNew /\ CalcNew /\ CalcIdle /\ MoreNew

\* pub fn insert(&mut self, value: T): the fields <<root, size>> after the call
insert(rt, sz, value) ==
    LET r == insert_node(rt, value)
    IN  <<r[1], IF r[2] THEN sz + 1 ELSE sz>>

\* pub fn remove(&mut self, value: &T) -> bool: <<root, size, returned bool>>
\* (size is usize: a result below 0 stands for the underflow of `self.size -= 1`)
remove(rt, sz, value) ==
    LET r == remove_node(rt, value)
    IN  <<r[1], IF r[2] THEN sz - 1 ELSE sz, r[2]>>

\* pub fn clear(&mut self): the fields <<root, size>> after the call
clear(rt, sz) == <<None, 0>>

\* ---- Spec: every public method on one tree, with the last call recorded

Insert(v) ==
    /\ LET r == insert(root, size, v) IN root' = r[1] /\ size' = r[2]
    /\ lastOp' = "insert"
    /\ lastArg' = v
    /\ lastRet' = FALSE
    /\ wasIn' = (v \in S)
    /\ lastCase' = "none"
    /\ S' = S \cup {v}
    /\ UNCHANGED <<tree2Vars, countVars, calcVars, moreVars>>

Remove(v) ==
    /\ LET r == remove(root, size, v) IN root' = r[1] /\ size' = r[2] /\ lastRet' = r[3]
    /\ lastOp' = "remove"
    /\ lastArg' = v
    /\ wasIn' = (v \in S)
    /\ lastCase' = ChildrenOf(root, v)
    /\ S' = S \ {v}
    /\ UNCHANGED <<tree2Vars, countVars, calcVars, moreVars>>

Clear ==
    /\ LET r == clear(root, size) IN root' = r[1] /\ size' = r[2]
    /\ lastOp' = "clear"
    /\ lastArg' = 0
    /\ lastRet' = FALSE
    /\ wasIn' = FALSE
    /\ lastCase' = "none"
    /\ S' = {}
    /\ UNCHANGED <<tree2Vars, countVars, calcVars, moreVars>>

Contains(v) ==
    /\ lastOp' = "contains"
    /\ lastArg' = v
    /\ lastRet' = contains(root, v)
    /\ wasIn' = (v \in S)
    /\ lastCase' = "none"
    /\ UNCHANGED <<root, size, S, tree2Vars, countVars, calcVars, moreVars>>

Next ==
    \/ \E v \in Values : Insert(v)
    \/ \E v \in Values : Remove(v)
    \/ \E v \in Values : Contains(v)
    \/ Clear

Spec == Init /\ [][Next]_vars

\* ---- SpecDeep: insert, remove and clear on one tree over DeepValues, nothing recorded

DeepInsert(v) ==
    /\ LET r == insert(root, size, v) IN root' = r[1] /\ size' = r[2]
    /\ UNCHANGED <<histVars, tree2Vars, countVars, calcVars, moreVars>>

DeepRemove(v) ==
    /\ LET r == remove(root, size, v) IN root' = r[1] /\ size' = r[2]
    /\ UNCHANGED <<histVars, tree2Vars, countVars, calcVars, moreVars>>

DeepClear ==
    /\ LET r == clear(root, size) IN root' = r[1] /\ size' = r[2]
    /\ UNCHANGED <<histVars, tree2Vars, countVars, calcVars, moreVars>>

NextDeep ==
    \/ \E v \in DeepValues : DeepInsert(v)
    \/ \E v \in DeepValues : DeepRemove(v)
    \/ DeepClear

SpecDeep == Init /\ [][NextDeep]_vars

\* ---- SpecCount / SpecInsRem: at most MaxOps calls on one tree, the calls counted

CountInsert(v) ==
    /\ nOps < MaxOps
    /\ LET r == insert(root, size, v) IN root' = r[1] /\ size' = r[2]
    /\ nInsert' = [nInsert EXCEPT ![v] = @ + 1]
    /\ nInsertAbsent' = [nInsertAbsent EXCEPT ![v] = IF contains(root, v) THEN @ ELSE @ + 1]
    /\ insSinceClear' = IF contains(root, v) THEN insSinceClear ELSE insSinceClear + 1
    /\ nOps' = nOps + 1
    /\ UNCHANGED <<nRemoveTrue, remSinceClear, histVars, tree2Vars, calcVars, moreVars>>

CountRemove(v) ==
    /\ nOps < MaxOps
    /\ LET r == remove(root, size, v)
       IN  /\ root' = r[1]
           /\ size' = r[2]
           /\ nRemoveTrue' = [nRemoveTrue EXCEPT ![v] = IF r[3] THEN @ + 1 ELSE @]
           /\ remSinceClear' = IF r[3] THEN remSinceClear + 1 ELSE remSinceClear
    /\ nOps' = nOps + 1
    /\ UNCHANGED <<nInsert, nInsertAbsent, insSinceClear, histVars, tree2Vars, calcVars, moreVars>>

CountClear ==
    /\ nOps < MaxOps
    /\ LET r == clear(root, size) IN root' = r[1] /\ size' = r[2]
    /\ insSinceClear' = 0
    /\ remSinceClear' = 0
    /\ nOps' = nOps + 1
    /\ UNCHANGED <<nInsert, nInsertAbsent, nRemoveTrue, histVars, tree2Vars, calcVars, moreVars>>

NextInsRem ==
    \/ \E v \in CountValues : CountInsert(v)
    \/ \E v \in CountValues : CountRemove(v)

SpecInsRem == Init /\ [][NextInsRem]_vars

NextCount ==
    \/ \E v \in CountValues : CountInsert(v)
    \/ \E v \in CountValues : CountRemove(v)
    \/ CountClear

SpecCount == Init /\ [][NextCount]_vars

\* ---- SpecDistinct: only insertions of values not inserted before (S records them)

DistinctInsert(v) ==
    /\ v \notin S
    /\ LET r == insert(root, size, v) IN root' = r[1] /\ size' = r[2]
    /\ S' = S \cup {v}
    /\ UNCHANGED <<lastOp, lastArg, lastRet, wasIn, lastCase, tree2Vars, countVars, calcVars, moreVars>>

NextDistinct == \E v \in DeepValues : DistinctInsert(v)

SpecDistinct == Init /\ [][NextDistinct]_vars

\* ---- SpecPerm: two trees, each filled with distinct values of PermValues in its own order

PermInsertFirst(v) ==
    /\ v \notin S
    /\ LET r == insert(root, size, v) IN root' = r[1] /\ size' = r[2]
    /\ S' = S \cup {v}
    /\ UNCHANGED <<lastOp, lastArg, lastRet, wasIn, lastCase, tree2Vars, countVars, calcVars, moreVars>>

PermInsertSecond(v) ==
    /\ v \notin S2
    /\ LET r == insert(root2, size2, v) IN root2' = r[1] /\ size2' = r[2]
    /\ S2' = S2 \cup {v}
    /\ UNCHANGED <<root, size, histVars, countVars, calcVars, moreVars>>

NextPerm ==
    \/ \E v \in PermValues : PermInsertFirst(v)
    \/ \E v \in PermValues : PermInsertSecond(v)

SpecPerm == Init /\ [][NextPerm]_vars

\* ---- SpecRot: insert and remove on one tree, with the tree before the call recorded
\* ---- and an unwrap() of None ending the run

RotInsert(v) ==
    /\ ~panicked
    /\ rootBefore' = root
    /\ lastOp' = "insert"
    /\ lastArg' = v
    /\ IF insert_node_panics(root, v)
       THEN panicked' = TRUE /\ root' = None /\ size' = size
       ELSE LET r == insert(root, size, v) IN root' = r[1] /\ size' = r[2] /\ panicked' = FALSE
    /\ UNCHANGED <<lastRet, wasIn, lastCase, S, tree2Vars, countVars, calcVars,
                   btVars, llVars, dlVars, parseVars>>

RotRemove(v) ==
    /\ ~panicked
    /\ rootBefore' = root
    /\ lastOp' = "remove"
    /\ lastArg' = v
    /\ IF remove_node_panics(root, v)
       THEN panicked' = TRUE /\ root' = None /\ size' = size
       ELSE LET r == remove(root, size, v) IN root' = r[1] /\ size' = r[2] /\ panicked' = FALSE
    /\ UNCHANGED <<lastRet, wasIn, lastCase, S, tree2Vars, countVars, calcVars,
                   btVars, llVars, dlVars, parseVars>>

NextRot ==
    \/ \E v \in Values : RotInsert(v)
    \/ \E v \in Values : RotRemove(v)

SpecRot == Init /\ [][NextRot]_vars

\* the nodes handed to rebalance by the call made last
Rebalanced ==
    IF lastOp = "insert" THEN insert_node_rebalanced(rootBefore, lastArg)
    ELSE IF lastOp = "remove" THEN remove_node_rebalanced(rootBefore, lastArg)
    ELSE {}

\* ---- SpecList: every public method on one LinkedList, with the last call recorded

ListFrame == UNCHANGED <<avlVars, calcVars, panicked, rootBefore, btVars, dlVars, parseVars>>

ListPush(v) ==
    /\ ll_size < MaxListLen
    /\ LET r == ll_push(ll_head, ll_size, v) IN ll_head' = r[1] /\ ll_size' = r[2]
    /\ llOp' = "push" /\ llArg' = v /\ llRet' = None
    /\ ListFrame

ListPop ==
    /\ LET r == ll_pop(ll_head, ll_size)
       IN  ll_head' = r[1] /\ ll_size' = r[2] /\ llRet' = r[3]
    /\ llOp' = "pop" /\ llArg' = 0
    /\ ListFrame

ListRemove(index) ==
    /\ LET r == ll_remove(ll_head, ll_size, index)
       IN  ll_head' = r[1] /\ ll_size' = r[2] /\ llRet' = r[3]
    /\ llOp' = "remove" /\ llArg' = index
    /\ ListFrame

ListContains(v) ==
    /\ llOp' = "contains" /\ llArg' = v /\ llRet' = ll_contains(ll_head, v)
    /\ UNCHANGED <<ll_head, ll_size>>
    /\ ListFrame

ListClear ==
    /\ LET r == ll_clear(ll_head, ll_size) IN ll_head' = r[1] /\ ll_size' = r[2]
    /\ llOp' = "clear" /\ llArg' = 0 /\ llRet' = None
    /\ ListFrame

ListReverse ==
    /\ LET r == ll_reverse(ll_head, ll_size) IN ll_head' = r[1] /\ ll_size' = r[2]
    /\ llOp' = "reverse" /\ llArg' = 0 /\ llRet' = None
    /\ ListFrame

\* the indices handed to remove: all positions of the longest list and two beyond
ListIndices == 0..(MaxListLen + 1)

NextList ==
    \/ \E v \in 1..MaxData : ListPush(v)
    \/ ListPop
    \/ \E i \in ListIndices : ListRemove(i)
    \/ \E v \in 1..MaxData : ListContains(v)
    \/ ListClear
    \/ ListReverse

SpecList == Init /\ [][NextList]_vars

\* ---- SpecSets: the same insert, remove and clear calls on an AvlTree and on a
\* ---- BinaryTree; contains, len and is_empty change nothing and are compared in
\* ---- every state

SetsFrame == UNCHANGED <<wasIn, lastCase, S, tree2Vars, countVars, calcVars,
                         panicked, rootBefore, llVars, dlVars, parseVars>>

SetsInsert(v) ==
    /\ LET r == insert(root, size, v) IN root' = r[1] /\ size' = r[2]
    /\ LET b == bt_insert(bt_root, bt_size, v) IN bt_root' = b[1] /\ bt_size' = b[2]
    /\ lastOp' = "insert" /\ lastArg' = v /\ lastRet' = FALSE
    /\ SetsFrame

SetsRemove(v) ==
    /\ LET r == remove(root, size, v) IN root' = r[1] /\ size' = r[2] /\ lastRet' = r[3]
    /\ LET b == bt_remove(bt_root, bt_size, v) IN bt_root' = b[1] /\ bt_size' = b[2]
    /\ lastOp' = "remove" /\ lastArg' = v
    /\ SetsFrame

SetsClear ==
    /\ LET r == clear(root, size) IN root' = r[1] /\ size' = r[2]
    /\ LET b == bt_clear(bt_root, bt_size) IN bt_root' = b[1] /\ bt_size' = b[2]
    /\ lastOp' = "clear" /\ lastArg' = 0 /\ lastRet' = FALSE
    /\ SetsFrame

NextSets ==
    \/ \E v \in SetValues : SetsInsert(v)
    \/ \E v \in SetValues : SetsRemove(v)
    \/ SetsClear

SpecSets == Init /\ [][NextSets]_vars

\* ---- SpecDll: every public method on one DoubleLinkedList, with the last call
\* ---- recorded; a panic and a call that does not return end the run

DllFrame == UNCHANGED <<avlVars, calcVars, panicked, rootBefore, btVars, llVars, parseVars>>

\* the list as it stands
DlNow == DlList(dl_head, dl_tail, dl_length, dl_nodes)

\* the outcomes of a call that the model gives the status st: `self.length -= 1` at
\* length 0 panics in a build with overflow checks and wraps in one without
DllOutcomes(length, st) ==
    IF dl_length = 0 /\ length = -1 THEN {st, "overflow"} ELSE {st}

\* a list with room for one more node
DllRoom == dl_length < MaxDlLen /\ Cardinality(DOMAIN dl_nodes) < MaxDlLen

\* the call named op with argument arg has returned r (a length that has wrapped to
\* usize::MAX is not decremented further)
DllCall(op, arg, r) ==
    /\ dlStatus = "ok"
    /\ r.length >= -1
    /\ dl_head' = dl_renamed(r, dl_order(r)).head
    /\ dl_tail' = dl_renamed(r, dl_order(r)).tail
    /\ dl_length' = r.length
    /\ dl_nodes' = dl_renamed(r, dl_order(r)).nodes
    /\ dlRet' = r.ret
    /\ dlStatus' \in DllOutcomes(r.length, r.status)
    /\ dlOp' = op
    /\ dlArg' = arg
    /\ DllFrame

DllPush(v) == DllRoom /\ DllCall("push", v, dl_push(DlNow, v))

DllPushEnd(v) == DllRoom /\ DllCall("push_end", v, dl_push_end(DlNow, v))

DllPop == DllCall("pop", 0, dl_pop(DlNow))

DllPopEnd == DllCall("pop_end", 0, dl_pop_end(DlNow))

DllClear == DllCall("clear", 0, dl_clear(DlNow))

DllReverse == DllCall("reverse", 0, dl_reverse(DlNow))

DllHas(v) == DllCall("has", v, dl_has(DlNow, v))

DllRemoveVal(v) == DllCall("remove_val", v, dl_remove_val(DlNow, v))

NextDll ==
    \/ \E v \in DlData : DllPush(v)
    \/ \E v \in DlData : DllPushEnd(v)
    \/ DllPop
    \/ DllPopEnd
    \/ DllClear
    \/ DllReverse
    \/ \E v \in DlData : DllHas(v)
    \/ \E v \in DlData : DllRemoveVal(v)

SpecDll == Init /\ [][NextDll]_vars

\* ---- SpecCalc: one calculator; evaluate is called on the lines of CalcInputs and
\* ---- the memory and clear commands of the session loop act on the slots of CalcSlots

\* the lines handed to evaluate: values, recalls, whole-line stores and each way to fail
CalcInputs ==
    { <<"1">>, <<"2">>, <<"3">>, <<"_">>,
      <<"m", "3">>, <<" ", "m", "3", " ">>, <<"m", "9">>,
      <<"(", "m", "3", ")">>, <<"m", "3", "+", "0">>, <<"m", "9", "*", "1">>,
      <<"1", "/", "0">>, <<"1", "/", "_">>, <<"2", "%", "m", "3">>,
      <<"2", "+">>, <<"2", ")">>, <<"2", " ", "3">>, <<"1", ".", ".">>,
      <<"c", "3">>, <<"(", "2">>, <<"l", "n", "(", "0", ")">> }

CalcSlots == {3, 9}

\* self.evaluate(input)
Evaluate(inp) ==
    \E e \in {evaluate(memory, last_result, inp)} :
        /\ e.res.kind # "Inexact"
        /\ memory' = e.memory
        /\ last_result' = e.last_result
        /\ input' = inp
        /\ result' = e.res
        /\ calcOp' = "evaluate"
        /\ calcArg' = 0
        /\ stored3' = IF is_memory_save(inp) = Some(3) THEN Some(last_result) ELSE stored3
        /\ UNCHANGED <<pc, eof, nRead, shape, avlVars, moreVars>>

\* SaveMemory, but the value goes to the slot before idx
SaveMemory_off_by_one(idx) ==
    /\ memory' = [memory EXCEPT ![idx - 1] = last_result]
    /\ calcOp' = "save"
    /\ calcArg' = idx
    /\ input' = <<>>
    /\ result' = NoResult
    /\ stored3' = IF idx = 3 THEN Some(last_result) ELSE stored3
    /\ UNCHANGED <<last_result, pc, eof, nRead, shape, avlVars, moreVars>>

\* Command::SaveMemory(idx)
SaveMemory(idx) ==
    /\ memory' = [memory EXCEPT ![idx] = last_result]
    /\ calcOp' = "save"
    /\ calcArg' = idx
    /\ input' = <<>>
    /\ result' = NoResult
    /\ stored3' = IF idx = 3 THEN Some(last_result) ELSE stored3
    /\ UNCHANGED <<last_result, pc, eof, nRead, shape, avlVars, moreVars>>

\* Command::ClearMemory(idx)
ClearMemory(idx) ==
    /\ memory' = [memory EXCEPT ![idx] = 0]
    /\ calcOp' = "clearmem"
    /\ calcArg' = idx
    /\ input' = <<>>
    /\ result' = NoResult
    /\ stored3' = IF idx = 3 THEN None ELSE stored3
    /\ UNCHANGED <<last_result, pc, eof, nRead, shape, avlVars, moreVars>>

\* Command::ClearResult
ClearResult ==
    /\ last_result' = 0
    /\ calcOp' = "clear"
    /\ calcArg' = 0
    /\ input' = <<>>
    /\ result' = NoResult
    /\ UNCHANGED <<memory, stored3, pc, eof, nRead, shape, avlVars, moreVars>>

NextCalc ==
    \/ \E inp \in CalcInputs : Evaluate(inp)
    \/ \E idx \in CalcSlots : SaveMemory(idx)
    \/ \E idx \in CalcSlots : ClearMemory(idx)
    \/ ClearResult

SpecCalc == Init /\ [][NextCalc]_vars

\* ---- SpecPrec: evaluate applied once to a line built from operands and operators

\* the operators by level
AddOps == {<<"+">>, <<"-">>}
MulOps == {<<"*">>, <<"/">>, <<"%">>}
PowerOps == {<<"*", "*">>, <<"^">>}
BinOps == AddOps \cup MulOps \cup PowerOps

\* the operands: the numerals 0..MaxOperand, the recalls m0 and m1, the last
\* result, and a computed zero
NumWord(n) == <<DigitChars[n + 1]>>
Numerals == {NumWord(n) : n \in 0..MaxOperand}
W_m0 == <<"m", "0">>
W_m1 == <<"m", "1">>
W_last == <<"_">>
W_zero == <<"(", "1", "-", "1", ")">>
Operands == Numerals \cup {W_m0, W_m1, W_last, W_zero}
ChainOperands == Numerals \cup {W_m1}

Shape2(form, a, op1, b) == [form |-> form, a |-> a, op1 |-> op1, b |-> b, op2 |-> <<>>, c |-> <<>>]
Shape3(form, a, op1, b, op2, c) == [form |-> form, a |-> a, op1 |-> op1, b |-> b, op2 |-> op2, c |-> c]

\* a op b, -a op b, and the three ways to write a op b op c
\* identifiers that are no constant, no memory slot and no known function
UnknownNames ==
    { <<"f", "o", "o">>, <<"S", "I", "N">>, <<"P", "i">>, <<"m", "1", "0">>, <<"m", "x">>,
      <<"c", "3">>, <<"x">>, <<"s", "i", "n", "h">> }

\* an identifier a alone, called on b, called without the closing parenthesis,
\* followed by b without parentheses, and alone after 2+
\* (forms bare, call, open, spaced, after)
FunctionShapes ==
    {Shape2(f, a, <<>>, b) : f \in {"bare", "call", "open", "spaced", "after"},
                            a \in KnownFunctions \cup UnknownNames, b \in Numerals}

Shapes ==
    {Shape2(f, a, op, b) : f \in {"binary", "neg"}, a \in Operands, op \in BinOps, b \in Operands}
    \cup FunctionShapes
    \cup {Shape3(f, a, op1, b, op2, c) :
            f \in {"chain", "left", "right"}, a \in ChainOperands, op1 \in BinOps,
            b \in ChainOperands, op2 \in BinOps, c \in ChainOperands}

\* the line a shape stands for
Render(sh) ==
    CASE sh.form = "binary" -> sh.a \o sh.op1 \o sh.b
      [] sh.form = "neg" -> <<"-">> \o sh.a \o sh.op1 \o sh.b
      [] sh.form = "chain" -> sh.a \o sh.op1 \o sh.b \o sh.op2 \o sh.c
      [] sh.form = "left" -> <<"(">> \o sh.a \o sh.op1 \o sh.b \o <<")">> \o sh.op2 \o sh.c
      [] sh.form = "right" -> sh.a \o sh.op1 \o <<"(">> \o sh.b \o sh.op2 \o sh.c \o <<")">>
      [] sh.form = "bare" -> sh.a
      [] sh.form = "call" -> sh.a \o <<"(">> \o sh.b \o <<")">>
      [] sh.form = "open" -> sh.a \o <<"(">> \o sh.b
      [] sh.form = "spaced" -> sh.a \o <<" ">> \o sh.b
      [] sh.form = "after" -> <<"2", "+">> \o sh.a
      [] OTHER -> <<>>

\* a calculator with 2 in slot 1 and the line of one shape, not yet evaluated
InitPrec ==
    /\ AvlNew
    /\ MoreNew
    /\ memory = [i \in 0..9 |-> IF i = 1 THEN 2 ELSE 0]
    /\ last_result \in {0, MaxOperand}
    /\ shape \in Shapes
    /\ input = Render(shape)
    /\ result = NoResult
    /\ calcOp = "new"
    /\ calcArg = 0
    /\ stored3 = None
    /\ pc = "idle"
    /\ eof = FALSE
    /\ nRead = 0

\* self.evaluate(input), on the line chosen at the start
PrecApply ==
    \E e \in {evaluate(memory, last_result, input)} :
        /\ calcOp = "new"
        /\ e.res.kind # "Inexact"
        /\ memory' = e.memory
        /\ last_result' = e.last_result
        /\ result' = e.res
        /\ calcOp' = "evaluate"
        /\ UNCHANGED <<input, shape, calcArg, stored3, pc, eof, nRead, avlVars, moreVars>>

NextPrec == PrecApply

SpecPrec == InitPrec /\ [][NextPrec]_vars

\* the value of an operand, read off the calculator
OperandVal(w, mem, last) ==
    IF w = W_last THEN last
    ELSE IF w = W_m0 THEN mem[0]
    ELSE IF w = W_m1 THEN mem[1]
    ELSE IF w = W_zero THEN 0
    ELSE Unwrap(to_digit(w[1]))

\* x op y on two results, an error or an inexact value on the left going
\* before one on the right
ApplyOp(op, x, y) ==
    IF ~IsOk(x) THEN x
    ELSE IF ~IsOk(y) THEN y
    ELSE IF op = <<"+">> THEN f64_add(x.val, y.val)
    ELSE IF op = <<"-">> THEN f64_sub(x.val, y.val)
    ELSE IF op = <<"*">> THEN f64_mul(x.val, y.val)
    ELSE IF op = <<"/">>
    THEN (IF y.val = 0 THEN Err("Division by zero") ELSE f64_div(x.val, y.val))
    ELSE IF op = <<"%">>
    THEN (IF y.val = 0 THEN Err("Modulo by zero") ELSE f64_rem(x.val, y.val))
    ELSE powf(x.val, y.val)

\* -x on a result
NegOf(x) == IF IsOk(x) THEN f64_neg(x.val) ELSE x

\* the operands of the line being evaluated, as values of the calculator before the call
ValA == Ok(OperandVal(shape.a, memory, last_result))
ValB == Ok(OperandVal(shape.b, memory, last_result))
ValC == Ok(OperandVal(shape.c, memory, last_result))

\* (a op1 b) op2 c and a op1 (b op2 c)
LeftGrouped == ApplyOp(shape.op2, ApplyOp(shape.op1, ValA, ValB), ValC)
RightGrouped == ApplyOp(shape.op1, ValA, ApplyOp(shape.op2, ValB, ValC))

\* the step that evaluates a line of the given form
Evaluates(form) == calcOp = "new" /\ calcOp' = "evaluate" /\ shape.form = form

\* ---- SpecEval: evaluate applied once to a line of at most MaxChars characters

\* the characters the lines are made of
LineChars == {"2", "0", "+", "-", "*", "/", "(", ")", " ", "_"}

Lines == UNION {[1..n -> LineChars] : n \in 0..MaxChars}

\* a calculator whose last result is 0 or 3, and a line not yet evaluated
InitEval ==
    /\ AvlNew
    /\ MoreNew
    /\ memory = [i \in 0..9 |-> 0]
    /\ last_result \in {0, 3}
    /\ input \in Lines
    /\ result = NoResult
    /\ calcOp = "new"
    /\ calcArg = 0
    /\ stored3 = None
    /\ pc = "idle"
    /\ eof = FALSE
    /\ nRead = 0
    /\ shape = NoShape

\* self.evaluate(input), on the line chosen at the start
EvalApply ==
    \E e \in {evaluate(memory, last_result, input)} :
        /\ calcOp = "new"
        /\ e.res.kind # "Inexact"
        /\ memory' = e.memory
        /\ last_result' = e.last_result
        /\ result' = e.res
        /\ calcOp' = "evaluate"
        /\ UNCHANGED <<input, shape, calcArg, stored3, pc, eof, nRead, avlVars, moreVars>>

NextEval == EvalApply

SpecEval == InitEval /\ [][NextEval]_vars

\* ---- SpecParse: evaluate applied once, call by call of the parse
\* ---- functions, to every line of at most MaxLexemes lexemes and to the lines of
\* ---- DeepLines

\* the lexemes the short lines are made of
ParseLexemes ==
    {<<"2">>, <<"0">>, <<"-">>, <<"*">>, <<"/">>, <<"^">>, <<"(">>, <<")">>, W_ln, W_pi}

RECURSIVE Joined(_)
\* the lines of at most n lexemes
Joined(n) ==
    IF n = 0 THEN {<<>>}
    ELSE Joined(n - 1) \cup {l \o x : l \in Joined(n - 1), x \in ParseLexemes}

\* longer lines, for the tokens and the depths the short lines do not reach
DeepLines ==
    { <<".">>,
      W_m1,
      <<"2", "+", "2", "*", "2", "%", "0">>,
      <<"+", "2", "*", "*", "2", "*", "*", "2">>,
      <<"_", "+", "m", "1", "-", "2">>,
      W_abs \o <<"(", "-", "(", "2", ")", ")">>,
      <<"(", "(", "2", "+", "(", "2">>,
      <<"f", "o", "o", "(", "2", ")">>,
      <<"2", " ", "2">>,
      W_pi \o <<"*", "2">>,
      <<"2", "/", "(">> \o W_pi \o <<"-">> \o W_pi \o <<")", "+", "2">>,
      <<"2", "%">> \o W_pi \o <<"*", "2">>,
      W_ln \o <<"(">> \o W_pi \o <<")", "-", "2">>,
      W_abs \o <<"(">> \o W_pi \o <<")", "^">> \o W_pi }

ParseLines == Joined(MaxLexemes) \cup DeepLines

ParseFrame == UNCHANGED <<shape, calcArg, stored3, pc, eof, nRead, avlVars,
                          panicked, rootBefore, btVars, llVars, dlVars>>

\* evaluate has not been called
NotCalled == calcOp = "new" /\ ev_frames = <<>> /\ ev_ret = NoResult

\* self.evaluate(inp) is called and runs up to its call of parse_expression: the
\* memory save path, then tokenize
ParseStart(inp) ==
    /\ tokenize(inp).kind # "Inexact"
    /\ input' = inp
    /\ IF is_memory_save(inp) # None
       THEN /\ memory' = evaluate_save(memory, last_result, Unwrap(is_memory_save(inp))).memory
            /\ result' = evaluate_save(memory, last_result, Unwrap(is_memory_save(inp))).res
            /\ calcOp' = "evaluate"
            /\ UNCHANGED <<last_result, parseVars>>
       ELSE IF tokenize(inp).kind # "Ok"
       THEN /\ result' = Err(tokenize(inp).err)
            /\ calcOp' = "evaluate"
            /\ UNCHANGED <<memory, last_result, parseVars>>
       ELSE /\ ev_tokens' = tokenize(inp).tokens
            /\ ev_pos' = 0
            /\ ev_frames' = <<Entered("parse_expression")>>
            /\ UNCHANGED <<memory, last_result, result, calcOp, ev_ret>>
    /\ ParseFrame

\* self.evaluate(inp) on one of the lines
ParseCall == NotCalled /\ \E inp \in ParseLines : ParseStart(inp)

\* the outcomes of the step of the innermost call f
step(f, ret, mem, last, tokens, pos) ==
    IF f.fn = "parse_expression" THEN step_expression(f, ret, pos)
    ELSE IF f.fn = "parse_addition" THEN step_addition(f, ret, tokens, pos)
    ELSE IF f.fn = "parse_multiplication" THEN step_multiplication(f, ret, tokens, pos)
    ELSE IF f.fn = "parse_power" THEN step_power(f, ret, tokens, pos)
    ELSE IF f.fn = "parse_unary" THEN step_unary(f, ret, tokens, pos)
    ELSE step_factor(f, ret, mem, last, tokens, pos)

\* the innermost call
Innermost == ev_frames[Len(ev_frames)]

\* the innermost call, one of fn, runs to its next call or to its return
ParseStep(fn) ==
    /\ ev_frames # <<>>
    /\ Innermost.fn = fn
    /\ \E o \in step(Innermost, ev_ret, memory, last_result, ev_tokens, ev_pos) :
          /\ ev_frames' = SubSeq(ev_frames, 1, Len(ev_frames) - 1) \o o.top
          /\ ev_pos' = o.pos
          /\ ev_ret' = o.ret
    /\ UNCHANGED <<memory, last_result, result, calcOp, ev_tokens, input>>
    /\ ParseFrame

\* evaluate from the return of parse_expression on
ParseEnd ==
    /\ calcOp = "new"
    /\ ev_frames = <<>>
    /\ ev_ret # NoResult
    /\ \E o \in evaluate_outcomes(last_result, ev_tokens, ev_ret, ev_pos) :
          /\ result' = o[1]
          /\ last_result' = o[2]
    /\ calcOp' = "evaluate"
    /\ UNCHANGED <<memory, parseVars, input>>
    /\ ParseFrame

NextParse ==
    \/ ParseCall
    \/ ParseStep("parse_expression")
    \/ ParseStep("parse_addition")
    \/ ParseStep("parse_multiplication")
    \/ ParseStep("parse_power")
    \/ ParseStep("parse_unary")
    \/ ParseStep("parse_factor")
    \/ ParseEnd

SpecParse == Init /\ [][NextParse]_vars

\* ---- SpecRepl / SpecReplFair: the session loop of run, reading at most MaxLines
\* ---- lines of ReplLines from standard input, which may end at any read

\* the lines typed, without their newline
ReplLines ==
    { <<>>, <<" ">>, W_q, W_exit, W_help, W_clear,
      <<"1">>, <<"2">>, <<"_">>, <<"m", "3">>, <<"c", "3">>,
      <<"(", "m", "3", ")">>, <<"2", "+">>, <<"1", "/", "0">>,
      <<" ", "m", "3", " ">>, <<"m", "9">>, <<"c", "9">>, <<"m", "1", "0">>,
      <<"m", " ", "3">>, <<"M", "3">>, <<"c", "3", "0">>, <<"m", "3", "+", "1">>,
      <<"2", ")">> }

\* calc.run(): the help text is printed and the loop is entered
RunStart ==
    /\ pc = "idle"
    /\ pc' = "prompt"
    /\ UNCHANGED <<memory, last_result, input, result, calcOp, calcArg, stored3, eof, nRead,
                   shape, avlVars, moreVars>>

\* print!("> ") and flush, at the top of the loop
Prompt ==
    /\ pc = "prompt"
    /\ pc' = "read"
    /\ UNCHANGED <<memory, last_result, input, result, calcOp, calcArg, stored3, eof, nRead,
                   shape, avlVars, moreVars>>

\* read_line returns a line: the rest of the iteration, from trim to the match arms
ReadLine(line) ==
    LET trimmed == trim(line \o <<"\n">>)
        cmd == parse_command(trimmed)
        kind == IF trimmed = <<>> THEN "Empty" ELSE cmd.kind
        e == evaluate(memory, last_result, cmd.expr)
    IN  /\ pc = "read"
        /\ ~eof
        /\ nRead < MaxLines
        /\ kind = "Evaluate" => e.res.kind # "Inexact"
        /\ nRead' = nRead + 1
        /\ input' = trimmed
        /\ pc' = IF kind = "Exit" THEN "done" ELSE "prompt"
        /\ calcOp' = kind
        /\ calcArg' = IF kind \in {"SaveMemory", "ClearMemory"} THEN cmd.idx ELSE 0
        /\ memory' = CASE kind = "SaveMemory" -> [memory EXCEPT ![cmd.idx] = last_result]
                       [] kind = "ClearMemory" -> [memory EXCEPT ![cmd.idx] = 0]
                       [] kind = "Evaluate" -> e.memory
                       [] OTHER -> memory
        /\ last_result' = CASE kind = "ClearResult" -> 0
                            [] kind = "Evaluate" -> e.last_result
                            [] OTHER -> last_result
        /\ result' = IF kind = "Evaluate" THEN e.res ELSE NoResult
        /\ stored3' = CASE kind = "SaveMemory" /\ cmd.idx = 3 -> Some(last_result)
                        [] kind = "ClearMemory" /\ cmd.idx = 3 -> None
                        [] OTHER -> stored3
        /\ UNCHANGED <<eof, shape, avlVars, moreVars>>

\* read_line returns Ok(0) at end-of-file and leaves the buffer empty: the
\* trimmed input is empty and the loop continues
ReadEof ==
    /\ pc = "read"
    /\ eof' = TRUE
    /\ input' = <<>>
    /\ calcOp' = "Empty"
    /\ calcArg' = 0
    /\ result' = NoResult
    /\ pc' = "prompt"
    /\ UNCHANGED <<memory, last_result, stored3, nRead, shape, avlVars, moreVars>>

\* read_line returns Err: "Error reading input" is printed and the loop continues
ReadError ==
    /\ pc = "read"
    /\ ~eof
    /\ calcOp' = "ReadError"
    /\ calcArg' = 0
    /\ result' = NoResult
    /\ pc' = "prompt"
    /\ UNCHANGED <<memory, last_result, input, stored3, eof, nRead, shape, avlVars, moreVars>>

NextRepl ==
    \/ RunStart
    \/ Prompt
    \/ \E line \in ReplLines : ReadLine(line)
    \/ ReadEof
    \/ ReadError

SpecRepl == Init /\ [][NextRepl]_vars

\* the loop is sequential code: it always takes its next step
SpecReplFair == Init /\ [][NextRepl]_vars /\ WF_vars(NextRepl)

\* ------------------------------------------------------------------ C1

\* C1: after every insert / remove from the empty tree every node satisfies
\* |height(left) - height(right)| <= 1 with the heights recomputed from the
\* structure, i.e. is_balanced() returns true.
AvlBalanced ==
    /\ is_balanced(root)
    /\ \A n \in Nodes(root) :
         LET d == TrueHeight(Unwrap(n).left) - TrueHeight(Unwrap(n).right)
         IN  d \in {-1, 0, 1}

\* the sparsest tree of height 4: seven nodes, every removal that shortens
\* its shallow side makes rebalance rotate
AvlBalancedWitness ==
    /\ TrueHeight(root) = 4
    /\ size = 7
    /\ NodeCount(root) = 7

\* ------------------------------------------------------------------ C2

\* C2: after every insert, remove and clear the tree is a binary search tree
\* without duplicates: at every node all values of the left subtree are
\* strictly less than the node's value and all values of the right subtree
\* strictly greater.
BstOrder ==
    /\ \A n \in Nodes(root) :
         /\ \A x \in StoredValues(Unwrap(n).left) : x < Unwrap(n).value
         /\ \A x \in StoredValues(Unwrap(n).right) : x > Unwrap(n).value
    /\ Cardinality(StoredValues(root)) = NodeCount(root)

\* eleven values are stored in a tree of height 4 with both sides of the root filled
BstOrderWitness ==
    /\ size = 11
    /\ Len(InOrder(root)) = 11
    /\ Unwrap(root).left # None
    /\ Unwrap(root).right # None
    /\ height(root) = 4

\* ------------------------------------------------------------------ C3

\* C3: the tree implements the set S: insert(v) makes it S \cup {v}, remove(v)
\* makes it S \ {v} and returns true exactly when v was in S, contains(v)
\* returns true exactly when v is in S, and the stored values are S after
\* every call.
ImplementsSet ==
    /\ StoredValues(root) = S
    /\ \A v \in Values : contains(root, v) <=> v \in S
    /\ lastOp = "remove" => (lastRet <=> wasIn)
    /\ lastOp = "contains" => (lastRet <=> wasIn)

\* contains has answered true for a value below the root of a larger tree
ImplementsSetWitness ==
    /\ lastOp = "contains"
    /\ lastRet
    /\ Cardinality(S) >= 5
    /\ lastArg < Unwrap(root).value

\* ------------------------------------------------------------------ C6

\* C6: after every public operation every node's cached height is
\* 1 + max(height(left), height(right)) with height(empty) = 0, so that
\* height() is the true height of the tree.
HeightCache ==
    /\ \A n \in Nodes(root) :
         Unwrap(n).height =
             1 + Max(node_height(Unwrap(n).left), node_height(Unwrap(n).right))
    /\ \A n \in Nodes(root) : Unwrap(n).height = TrueHeight(n)
    /\ height(root) = TrueHeight(root)

\* a removal at a node with two children, in a tree that is still of height 4
HeightCacheWitness ==
    /\ lastOp = "remove"
    /\ lastRet
    /\ lastCase = "two"
    /\ height(root) = 4

\* ------------------------------------------------------------------ C7

\* C7: insert(v) on a tree that already contains v changes nothing: len() and
\* the whole tree (shape, values, cached heights) are as before the call.
DuplicateInsertNoOp ==
    [][(lastOp' = "insert" /\ contains(root, lastArg'))
          => (root' = root /\ size' = size /\ len(size') = len(size))]_vars

\* a value that was present has been inserted again
DuplicateInsertNoOpWitness ==
    /\ lastOp = "insert"
    /\ wasIn
    /\ size >= 4
    /\ lastArg # Unwrap(root).value

\* ------------------------------------------------------------------ C8

\* C8: remove(v) returns true exactly when v was stored before the call; when
\* it returns false the tree and size are unchanged; when it returns true size
\* decreases by exactly 1 and exactly the value v leaves the stored values.
RemoveContract ==
    [][lastOp' = "remove" =>
          /\ lastRet' <=> (lastArg' \in StoredValues(root))
          /\ ~lastRet' => (root' = root /\ size' = size)
          /\ lastRet' => /\ size' = size - 1
                         /\ StoredValues(root') = StoredValues(root) \ {lastArg'}
                         /\ NodeCount(root') = NodeCount(root) - 1]_vars

\* a removal that returned true at a node with two children
RemoveContractWitness ==
    /\ lastOp = "remove"
    /\ lastRet
    /\ lastCase = "two"
    /\ size >= 3

\* a removal of an absent value from a non-empty tree returned false
RemoveAbsentWitness ==
    /\ lastOp = "remove"
    /\ ~lastRet
    /\ size >= 3

\* ------------------------------------------------------------------ C4

RECURSIVE SumOver(_, _)
\* the sum of f over the values 1..n
SumOver(f, n) == IF n = 0 THEN 0 ELSE f[n] + SumOver(f, n - 1)

\* C4 as stated: after any sequence of insert and remove calls from the empty
\* tree, contains(v) is true iff the number of insert(v) calls (every call
\* counted) exceeds the number of remove(v) calls made while v was present.
ContainsIffMoreInsertCalls ==
    \A v \in CountValues : contains(root, v) <=> nInsert[v] > nRemoveTrue[v]

\* C4 (amended): contains(v) is true iff the number of insert(v) calls made
\* while v was absent exceeds the number of remove(v) calls made while v was
\* present; a duplicate insert counts as little as a remove of an absent value.
ContainsIffMoreEffectiveInserts ==
    \A v \in CountValues : contains(root, v) <=> nInsertAbsent[v] > nRemoveTrue[v]

\* a value inserted twice and removed once is absent, another one is present
ContainsIffMoreEffectiveInsertsWitness ==
    \E v, w \in CountValues :
        /\ nInsert[v] >= 2
        /\ nRemoveTrue[v] = 1
        /\ nInsertAbsent[v] = 1
        /\ ~contains(root, v)
        /\ contains(root, w)

\* ------------------------------------------------------------------ C5

\* C5 as stated: after every operation (insert, remove or clear) size (len())
\* is the number of nodes reachable from root, which is the number of inserts
\* of an absent value minus the number of removes that returned true; size
\* never underflows, and is_empty() is true exactly when root is None.
SizeIsInsertsMinusRemoves ==
    /\ len(size) = NodeCount(root)
    /\ len(size) = SumOver(nInsertAbsent, MaxCountVal) - SumOver(nRemoveTrue, MaxCountVal)
    /\ size >= 0
    /\ is_empty(size) <=> root = None

\* C5 (amended): the same, with the inserts of an absent value and the
\* removes that returned true counted since the most recent clear() (since
\* construction when clear was never called).
SizeConsistent ==
    /\ len(size) = NodeCount(root)
    /\ len(size) = insSinceClear - remSinceClear
    /\ size >= 0
    /\ is_empty(size) <=> root = None

\* after a clear, values were inserted (one of them twice) and one removed
SizeConsistentWitness ==
    /\ SumOver(nInsertAbsent, MaxCountVal) > insSinceClear
    /\ insSinceClear = 3
    /\ SumOver(nInsert, MaxCountVal) > SumOver(nInsertAbsent, MaxCountVal)
    /\ remSinceClear = 1
    /\ size = 2

\* ------------------------------------------------------------------ C9

\* ceil(1.44 * log2(n + 2)) for n = 1, 2, ...
HeightBoundTable == <<3, 3, 4, 4, 5, 5, 5, 5, 5, 6, 6, 6, 6, 6, 6>>

\* C9: after n insertions of distinct values into an empty tree, in any
\* order, height() <= ceil(1.44 * log2(n + 2)).
HeightBound ==
    /\ size = Cardinality(S)
    /\ Cardinality(S) >= 1 => height(root) <= HeightBoundTable[Cardinality(S)]
    /\ Cardinality(S) = 0 => height(root) = 0

\* eleven distinct values have been inserted and the tree has height 4
HeightBoundWitness ==
    /\ Cardinality(S) = 11
    /\ len(size) = 11
    /\ height(root) = 4

\* ------------------------------------------------------------------ C10

\* C10: two trees filled with the same set of distinct values in two orders
\* answer contains(q) alike for every q, have the same len(), and both satisfy
\* the AVL balance invariant.
OrderIndependent ==
    S = S2 =>
        /\ \A q \in 0..(MaxPerm + 1) : contains(root, q) <=> contains(root2, q)
        /\ \A q \in 0..(MaxPerm + 1) : contains(root, q) <=> q \in S
        /\ len(size) = len(size2)
        /\ is_balanced(root)
        /\ is_balanced(root2)

\* both trees hold all the values and their shapes differ
OrderIndependentWitness ==
    /\ S = SetValues
    /\ S2 = SetValues
    /\ root # root2
    /\ Unwrap(root).value # Unwrap(root2).value

\* ------------------------------------------------------------------ C11

\* C11: an evaluate that fails leaves last_result and all ten memory slots as
\* they were, and an evaluate("_") in the state it leaves yields that last_result.
FailedEvaluateKeepsState ==
    [][(calcOp' = "evaluate" /\ IsErr(result'))
        => /\ memory' = memory
           /\ last_result' = last_result
           /\ evaluate(memory', last_result', <<"_">>).res = Ok(last_result)]_vars

\* a failed evaluate on a calculator whose last result and slots 3 and 9 are set
FailedEvaluateKeepsStateWitness ==
    /\ calcOp = "evaluate"
    /\ IsErr(result)
    /\ result.err = "Unexpected tokens at end of expression"
    /\ last_result = 3
    /\ memory[3] = 1
    /\ memory[9] = 2

\* ------------------------------------------------------------------ C12

\* the lines in which m3 is an operand and the value of the line is the slot's value
Recall3 == { <<"(", "m", "3", ")">>, <<"m", "3", "+", "0">> }

\* C12 as stated: once a value is stored in slot 3 and not cleared,
\* evaluate("m3") yields that value.
EvaluateM3YieldsStored ==
    [][(calcOp' = "evaluate" /\ trim(input') = <<"m", "3">> /\ stored3 # None)
        => result' = Ok(Unwrap(stored3))]_vars

\* C12, amended: slot 3 holds the value of the latest store (the m3 command or an
\* evaluate of the whole line m3) until c3, whatever is evaluated in between, and an
\* expression with m3 as an operand yields it.
MemoryRoundTrip ==
    /\ stored3 # None => memory[3] = Unwrap(stored3)
    /\ (calcOp = "evaluate" /\ input \in Recall3 /\ stored3 # None)
         => result = Ok(Unwrap(stored3))

\* slot 3 is recalled after other values were evaluated since its store
MemoryRoundTripWitness ==
    /\ calcOp = "evaluate"
    /\ input \in Recall3
    /\ stored3 = Some(2)
    /\ result = Ok(2)
    /\ memory[9] = 3

\* ------------------------------------------------------------------ C16

\* C16: right after a successful evaluate that returned v, evaluate("_") returns v
\* and leaves last_result = v.
UnderscoreIsLastValue ==
    (calcOp = "evaluate" /\ IsOk(result))
        => LET e == evaluate(memory, last_result, <<"_">>)
           IN  e.res = Ok(result.val) /\ e.last_result = result.val

\* a successful evaluate whose value differs from the last result before it
UnderscoreIsLastValueWitness ==
    /\ calcOp = "evaluate"
    /\ IsOk(result)
    /\ result.val = 2
    /\ input = <<"m", "9", "*", "1">>
    /\ memory[3] = 3

\* ------------------------------------------------------------------ C13

\* the line -2**2
Line_neg_2_pow_2 == <<"-", "2", "*", "*", "2">>

\* C13 as stated: -a**b is -(a**b), and evaluate("-2**2") is -4.
NegPowerIsNegOfPower ==
    [][(Evaluates("neg") /\ shape.op1 \in PowerOps)
        => /\ result' = NegOf(ApplyOp(shape.op1, ValA, ValB))
           /\ input = Line_neg_2_pow_2 => result' = Ok(-4)]_vars

\* C13, amended: -a**b is (-a)**b, and evaluate("-2**2") is 4.
NegPowerIsPowerOfNeg ==
    [][(Evaluates("neg") /\ shape.op1 \in PowerOps)
        => /\ result' = ApplyOp(shape.op1, NegOf(ValA), ValB)
           /\ input = Line_neg_2_pow_2 => result' = Ok(4)]_vars

\* -2**2 has been evaluated
NegPowerIsPowerOfNegWitness ==
    /\ calcOp = "evaluate"
    /\ input = Line_neg_2_pow_2
    /\ shape.form = "neg"
    /\ result = Ok(4)

\* ------------------------------------------------------------------ C14

\* the line 2**3**2
Line_2_pow_3_pow_2 == <<"2", "*", "*", "3", "*", "*", "2">>

\* C14: a**b**c is a**(b**c), with ^ in the place of either ** as well, and
\* evaluate("2**3**2") is 512.
PowerRightAssociative ==
    [][(Evaluates("chain") /\ shape.op1 \in PowerOps /\ shape.op2 \in PowerOps)
        => /\ result' = RightGrouped
           /\ input = Line_2_pow_3_pow_2 => result' = Ok(512)]_vars

\* a^b^c has been evaluated for operands where the grouping matters
PowerRightAssociativeWitness ==
    /\ calcOp = "evaluate"
    /\ shape.form = "chain"
    /\ shape.op1 = <<"^">>
    /\ shape.op2 = <<"^">>
    /\ shape.a = NumWord(2)
    /\ shape.b = NumWord(3)
    /\ shape.c = NumWord(2)
    /\ result = Ok(512)

\* ------------------------------------------------------------------ C15

\* the lines 2+3*4 and (2+3)*4
Line_2_plus_3_times_4 == <<"2", "+", "3", "*", "4">>
Line_paren_2_plus_3_times_4 == <<"(", "2", "+", "3", ")", "*", "4">>

\* C15: * / % bind tighter than + -, both levels associate to the left, and
\* parentheses override both; evaluate("2+3*4") is 14 and evaluate("(2+3)*4") is 20.
PrecedenceAndAssociativity ==
    [][/\ (Evaluates("chain") /\ shape.op1 \in AddOps /\ shape.op2 \in MulOps)
            => result' = RightGrouped
       /\ (Evaluates("chain") /\ shape.op1 \in MulOps /\ shape.op2 \in AddOps)
            => result' = LeftGrouped
       /\ (Evaluates("chain") /\ shape.op1 \in AddOps /\ shape.op2 \in AddOps)
            => result' = LeftGrouped
       /\ (Evaluates("chain") /\ shape.op1 \in MulOps /\ shape.op2 \in MulOps)
            => result' = LeftGrouped
       /\ (Evaluates("left") /\ shape.op1 \notin PowerOps /\ shape.op2 \notin PowerOps)
            => result' = LeftGrouped
       /\ (Evaluates("right") /\ shape.op1 \notin PowerOps /\ shape.op2 \notin PowerOps)
            => result' = RightGrouped
       /\ (calcOp' = "evaluate" /\ input = Line_2_plus_3_times_4) => result' = Ok(14)
       /\ (calcOp' = "evaluate" /\ input = Line_paren_2_plus_3_times_4) => result' = Ok(20)
      ]_vars

\* (2+3)*4 has been evaluated to 20
PrecedenceAndAssociativityWitness ==
    /\ calcOp = "evaluate"
    /\ shape.form = "left"
    /\ input = Line_paren_2_plus_3_times_4
    /\ result = Ok(20)

\* ------------------------------------------------------------------ C17

\* C17: with a right operand whose value is zero (the numeral, a computed zero, a
\* recalled slot, the last result) / fails with "Division by zero" and % with
\* "Modulo by zero", whatever the left operand; with a nonzero one neither does.
\* The right operand is an operand alone or a parenthesised b op c that has a value.
ZeroDivisorFails ==
    [][/\ (Evaluates("binary") /\ shape.op1 = <<"/">>)
            => (ValB = Ok(0)) = (result' = Err("Division by zero"))
       /\ (Evaluates("binary") /\ shape.op1 = <<"%">>)
            => (ValB = Ok(0)) = (result' = Err("Modulo by zero"))
       /\ (Evaluates("binary") /\ shape.op1 = <<"/">>) => result' # Err("Modulo by zero")
       /\ (Evaluates("binary") /\ shape.op1 = <<"%">>) => result' # Err("Division by zero")
       /\ (Evaluates("right") /\ shape.op1 = <<"/">> /\ IsOk(ApplyOp(shape.op2, ValB, ValC)))
            => (ApplyOp(shape.op2, ValB, ValC) = Ok(0)) = (result' = Err("Division by zero"))
       /\ (Evaluates("right") /\ shape.op1 = <<"%">> /\ IsOk(ApplyOp(shape.op2, ValB, ValC)))
            => (ApplyOp(shape.op2, ValB, ValC) = Ok(0)) = (result' = Err("Modulo by zero"))
      ]_vars

\* a modulo by the last result, which is zero, has failed
ZeroDivisorFailsWitness ==
    /\ calcOp = "evaluate"
    /\ shape.form = "binary"
    /\ shape.op1 = <<"%">>
    /\ shape.a = W_m1
    /\ shape.b = W_last
    /\ last_result = 0
    /\ result = Err("Modulo by zero")

\* ------------------------------------------------------------------ C18

\* C18: once standard input has reached end-of-file the run loop terminates.
EofEndsSession == eof ~> (pc = "done")

\* ------------------------------------------------------------------ C21

\* the whole-line commands m<i> and c<i>
StoreLine(i) == <<"m", DigitChars[i + 1]>>
ClearLine(i) == <<"c", DigitChars[i + 1]>>

\* the step of the session that reads a line
ReadsLine == pc = "read" /\ nRead' = nRead + 1

\* C21: in a session slot i changes only on a line that, trimmed, is m<i> or c<i>;
\* every other line leaves the ten slots as they were, and m3 as an operand
\* recalls the value of slot 3.
OnlyWholeLineWritesMemory ==
    [][/\ \A i \in 0..9 :
            memory'[i] # memory[i] => (ReadsLine /\ input' \in {StoreLine(i), ClearLine(i)})
       /\ (ReadsLine /\ input' \notin {StoreLine(i) : i \in 0..9} \cup {ClearLine(i) : i \in 0..9})
            => memory' = memory
       /\ (ReadsLine /\ input' = <<"(", "m", "3", ")">>) => result' = Ok(memory[3])
       /\ (ReadsLine /\ input' = <<"m", "3", "+", "1">>) => result' = Ok(memory[3] + 1)
      ]_vars

\* m3 has been recalled as an operand while slot 3 holds 2
OnlyWholeLineWritesMemoryWitness ==
    /\ calcOp = "Evaluate"
    /\ input = <<"m", "3", "+", "1">>
    /\ memory[3] = 2
    /\ result = Ok(3)

\* ------------------------------------------------------------------ C22

\* C22: the store command for slot i sets memory[i] to last_result and the clear
\* command sets it to 0; neither changes last_result or another slot, and the slot
\* of a store or clear is within 0..9.
StoreAndClearFrame ==
    [][/\ \A i \in 0..9 :
            /\ (ReadsLine /\ input' = StoreLine(i))
                 => /\ memory' = [memory EXCEPT ![i] = last_result]
                    /\ last_result' = last_result
                    /\ calcOp' = "SaveMemory"
            /\ (ReadsLine /\ input' = ClearLine(i))
                 => /\ memory' = [memory EXCEPT ![i] = 0]
                    /\ last_result' = last_result
                    /\ calcOp' = "ClearMemory"
       /\ calcOp' \in {"SaveMemory", "ClearMemory"} => calcArg' \in 0..9
      ]_vars

\* slot 9 has been cleared while slot 3 and the last result are set
StoreAndClearFrameWitness ==
    /\ calcOp = "ClearMemory"
    /\ calcArg = 9
    /\ memory[9] = 0
    /\ memory[3] = 2
    /\ last_result = 2

\* ------------------------------------------------------------------ C23

\* C23 as stated: last_result changes only on a successful evaluation; clear, the
\* store commands and failed evaluations leave it alone.
LastResultOnlyFromEvaluate ==
    [][last_result' # last_result => (calcOp' = "Evaluate" /\ IsOk(result'))]_vars

\* C23, amended: last_result changes only on a successful evaluation, which sets it
\* to the value returned, and on the clear command, which sets it to 0.
LastResultFromEvaluateOrClear ==
    [][/\ last_result' # last_result
            => \/ ReadsLine /\ calcOp' = "Evaluate" /\ result' = Ok(last_result')
               \/ ReadsLine /\ input' = W_clear /\ last_result' = 0
       /\ (ReadsLine /\ input' = W_clear) => last_result' = 0
       /\ (ReadsLine /\ calcOp' = "Evaluate" /\ IsErr(result')) => last_result' = last_result
      ]_vars

\* clear has reset a last result that was stored in slot 3 before
LastResultFromEvaluateOrClearWitness ==
    /\ calcOp = "ClearResult"
    /\ input = W_clear
    /\ last_result = 0
    /\ memory[3] = 2

\* ------------------------------------------------------------------ C24

\* C24: an identifier that is no constant, no m<digit> and none of the fifteen known
\* functions fails as an unknown function, with or without a parenthesis after it; a
\* known function without `(` right after it fails as requiring parentheses; a known
\* function with `(` and an argument but no `)` fails with "Expected closing parenthesis".
FunctionErrors ==
    [][/\ Cardinality(KnownFunctions) = 15
       /\ (calcOp = "new" /\ calcOp' = "evaluate" /\ shape \in FunctionShapes)
            => /\ shape.a \in UnknownNames
                    => result' = ErrNamed("Unknown function", shape.a)
               /\ (shape.a \in KnownFunctions /\ shape.form \in {"bare", "spaced", "after"})
                    => result' = ErrNamed("Function requires parentheses", shape.a)
               /\ (shape.a \in KnownFunctions /\ shape.form = "open")
                    => result' = Err("Expected closing parenthesis")
               /\ (shape.a \in KnownFunctions /\ shape.form = "call")
                    => result'.err \notin {"Unknown function", "Function requires parentheses",
                                           "Expected closing parenthesis"}
      ]_vars

\* sqrt 4 has been rejected for its missing parentheses
FunctionErrorsWitness ==
    /\ calcOp = "evaluate"
    /\ shape.form = "spaced"
    /\ shape.a = W_sqrt
    /\ shape.b = NumWord(4)
    /\ result = ErrNamed("Function requires parentheses", W_sqrt)

\* ------------------------------------------------------------------ C19

\* the lines 2+, (, - and 2**, which end where a factor is required
EndsBeforeFactor ==
    { <<"2", "+">>, <<"(">>, <<"-">>, <<"2", "*", "*">> }

\* C19: when the input ends where a factor is required, evaluate fails with
\* "Unexpected end of expression".
UnexpectedEndReported ==
    (calcOp = "evaluate" /\ input \in EndsBeforeFactor)
        => result = Err("Unexpected end of expression")

\* ------------------------------------------------------------------ C20

\* the lines 2 3, 2) and (2)), which hold more than one expression
HasTrailingTokens ==
    { <<"2", " ", "3">>, <<"2", ")">>, <<"(", "2", ")", ")">> }

\* C20: when the expression parses and tokens other than EOF remain, evaluate fails
\* with "Unexpected tokens at end of expression" and last_result keeps its value;
\* evaluate succeeds only when the parser stopped at the EOF sentinel.
TrailingTokensRejected ==
    [][(calcOp = "new" /\ calcOp' = "evaluate")
        => LET t == tokenize(input)
               r == parse_expression(memory, last_result, t.tokens, 0)
           IN  /\ (t.kind = "Ok" /\ IsOk(r.res) /\ t.tokens[r.pos + 1] # TEOF)
                    => /\ result' = Err("Unexpected tokens at end of expression")
                       /\ last_result' = last_result
               /\ IsOk(result')
                    => /\ r.pos = Len(t.tokens) - 1
                       /\ t.tokens[r.pos + 1] = TEOF
               /\ input \in HasTrailingTokens
                    => /\ result' = Err("Unexpected tokens at end of expression")
                       /\ last_result' = last_result]_vars

\* (2)) has been rejected and the last result is the one from before
TrailingTokensRejectedWitness ==
    /\ calcOp = "evaluate"
    /\ input = <<"(", "2", ")", ")">>
    /\ result = Err("Unexpected tokens at end of expression")
    /\ last_result = 3

\* ------------------------------------------------------------------ C25

\* every node of the subtree caches its true height
HeightsCached(t) == \A n \in Nodes(t) : Unwrap(n).height = TrueHeight(n)

\* an AVL-balanced subtree with correct cached heights
WellFormedAvl(t) == is_balanced(t) /\ HeightsCached(t)

\* what rebalance does with a node of balance factor +2 or -2 over well-formed subtrees
RebalanceContract(n) ==
    LET n1 == update_height(n)
        b == balance_factor(n1)
        r == rebalance(n)
    IN  (b \in {2, -2} /\ WellFormedAvl(n.left) /\ WellFormedAvl(n.right))
        => /\ b = 2 =>
                r = IF balance_factor(Unwrap(n1.left)) < 0
                    THEN rotate_right([n1 EXCEPT !.left = Some(rotate_left(Unwrap(n1.left)))])
                    ELSE rotate_right(n1)
           /\ b = -2 =>
                r = IF balance_factor(Unwrap(n1.right)) > 0
                    THEN rotate_left([n1 EXCEPT !.right = Some(rotate_right(Unwrap(n1.right)))])
                    ELSE rotate_left(n1)
           /\ WellFormedAvl(Some(r))
           /\ InOrder(Some(r)) = InOrder(Some(n))

\* C25: rebalance, applied during insert or remove to a node of balance factor +2
\* (-2) whose subtrees are AVL-balanced with correct cached heights, rotates the
\* child first only if the left child's balance factor is below 0 (the right child's
\* above 0) and rotates once otherwise, a child of balance factor 0 included; the
\* subtree it returns is AVL-balanced, caches correct heights and has the same
\* in-order sequence.
RebalanceRestoresAvl == \A n \in Rebalanced : RebalanceContract(n)

\* a removal has left a node with balance factor +2 over a left child of balance factor 0
RebalanceRestoresAvlWitness ==
    /\ lastOp = "remove"
    /\ \E n \in Rebalanced :
          /\ balance_factor(update_height(n)) = 2
          /\ balance_factor(Unwrap(n.left)) = 0
          /\ WellFormedAvl(n.left) /\ WellFormedAvl(n.right)

\* ------------------------------------------------------------------ C26

\* the rotations rebalance makes on a node keep its in-order sequence
RotationsKeepOrder(n) ==
    LET n1 == update_height(n)
        b == balance_factor(n1)
    IN  /\ b > 1 =>
             LET n2 == IF balance_factor(Unwrap(n1.left)) < 0
                       THEN [n1 EXCEPT !.left = Some(rotate_left(Unwrap(n1.left)))]
                       ELSE n1
             IN  /\ InOrder(n2.left) = InOrder(n1.left)
                 /\ InOrder(Some(rotate_right(n2))) = InOrder(Some(n))
        /\ b < -1 =>
             LET n2 == IF balance_factor(Unwrap(n1.right)) > 0
                       THEN [n1 EXCEPT !.right = Some(rotate_right(Unwrap(n1.right)))]
                       ELSE n1
             IN  /\ InOrder(n2.right) = InOrder(n1.right)
                 /\ InOrder(Some(rotate_left(n2))) = InOrder(Some(n))

\* C26: in every insert and remove on a tree reachable from the empty tree, each
\* rotate_right finds a left child and each rotate_left a right child, so that no
\* unwrap() panics, the inner rotation of the two double cases included; the balance
\* factor rebalance computes is always within -2..2; every rotation keeps the
\* in-order sequence.
RotationsNeverPanic ==
    /\ ~panicked
    /\ \A n \in Rebalanced :
          /\ ~rebalance_panics(n)
          /\ balance_factor(update_height(n)) \in -2..2
          /\ RotationsKeepOrder(n)

\* an insertion has made rebalance rotate a left child to the left and then the node
\* to the right
RotationsNeverPanicWitness ==
    /\ lastOp = "insert"
    /\ ~panicked
    /\ \E n \in Rebalanced :
          /\ balance_factor(update_height(n)) = 2
          /\ balance_factor(Unwrap(n.left)) < 0

\* ------------------------------------------------------------------ C27

\* the node holding the argument of the remove made last, if it had two children
TwoChildSite ==
    IF lastOp = "remove" /\ deletion_site(rootBefore, lastArg) # None
    THEN LET n == Unwrap(deletion_site(rootBefore, lastArg))
         IN  IF n.left # None /\ n.right # None THEN Some(n) ELSE None
    ELSE None

\* the smallest value of a non-empty in-order sequence
FirstOf(seq) == seq[1]

\* C27: when remove(v) reaches a node with two children, the value placed at the
\* deletion site is the minimum of the right subtree, the left subtree is kept, exactly
\* one node leaves the right subtree, and extract_min returns the remaining right
\* subtree AVL-balanced, with correct cached heights, holding exactly the former
\* values of the right subtree without the minimum.
SuccessorReplaces ==
    TwoChildSite # None =>
        LET n == Unwrap(TwoChildSite)
            ex == extract_min(Unwrap(n.right))
            placed == successor_node(n)
        IN  /\ ex[1] = FirstOf(InOrder(n.right))
            /\ \A x \in StoredValues(n.right) : ex[1] <= x
            /\ placed.value = ex[1]
            /\ placed.left = n.left
            /\ placed.right = ex[2]
            /\ NodeCount(ex[2]) = NodeCount(n.right) - 1
            /\ WellFormedAvl(ex[2])
            /\ InOrder(ex[2]) = Tail(InOrder(n.right))
            /\ StoredValues(ex[2]) = StoredValues(n.right) \ {ex[1]}
            /\ InOrder(remove_node(Some(n), lastArg)[1])
                   = InOrder(n.left) \o InOrder(n.right)

\* a removal at a node with two children whose right subtree had to be rebalanced
\* after its minimum was taken out
SuccessorReplacesWitness ==
    /\ TwoChildSite # None
    /\ ~panicked
    /\ \E m \in extract_min_rebalanced(Unwrap(Unwrap(TwoChildSite).right)) :
          balance_factor(update_height(m)) = -2

\* ------------------------------------------------------------------ C30

\* a sequence without its element at the 0-based position i
WithoutIndex(seq, i) == SubSeq(seq, 1, i) \o SubSeq(seq, i + 2, Len(seq))

\* C30: remove(index) on a list x0..x(n-1) of size n returns None and changes neither
\* the list nor the size when index >= n; otherwise it returns Some(x_index), unlinks
\* exactly that element and keeps the order of the others, and the size drops by one;
\* the size is the number of nodes reachable from head.
RemoveAtIndex ==
    [][llOp' = "remove"
         => /\ llArg' >= ll_size
                 => llRet' = None /\ ll_head' = ll_head /\ ll_size' = ll_size
            /\ llArg' < ll_size
                 => /\ llRet' = Some(ll_data(ll_head)[llArg' + 1])
                    /\ ll_data(ll_head') = WithoutIndex(ll_data(ll_head), llArg')
                    /\ ll_size' = ll_size - 1
            /\ ll_size' = Len(ll_data(ll_head'))
      ]_vars

\* the third of the four elements 1, 2, 3, 1 has been removed
RemoveAtIndexWitness ==
    /\ llOp = "remove"
    /\ llArg = 2
    /\ llRet = Some(3)
    /\ ll_data(ll_head) = <<1, 2, 1>>
    /\ ll_size = 3

\* ------------------------------------------------------------------ C29

\* a sequence of integers in strictly increasing order
StrictlyIncreasing(seq) == \A i \in 1..(Len(seq) - 1) : seq[i] < seq[i + 1]

\* C29: after the same calls of insert, remove and clear from the empty tree, the
\* BinaryTree and the AvlTree answer contains, len, is_empty and the next remove alike
\* and hold the same values; the BinaryTree keeps the search-tree order and its size is
\* the number of its nodes.
TreesEquivalentAsSets ==
    /\ \A v \in SetValues : contains(root, v) = bt_contains(bt_root, v)
    /\ \A v \in SetValues : remove(root, size, v)[3] = bt_remove(bt_root, bt_size, v)[3]
    /\ len(size) = bt_len(bt_size)
    /\ is_empty(size) = bt_is_empty(bt_size)
    /\ InOrder(root) = InOrder(bt_root)
    /\ StrictlyIncreasing(InOrder(bt_root))
    /\ bt_size = NodeCount(bt_root)

\* a successful removal has left four values, in a BinaryTree that is a chain of four
\* nodes and an AvlTree of height three
TreesEquivalentAsSetsWitness ==
    /\ lastOp = "remove"
    /\ lastRet
    /\ bt_size = 4
    /\ TrueHeight(bt_root) = 4
    /\ height(root) = 3

\* ------------------------------------------------------------------ C28

\* a list as push, push_end, pop and pop_end build it: every node is on the walk from
\* head, length counts them, tail is the last one and every prev is the node before
WellLinked(list) ==
    LET w == dl_walk(list.nodes, list.head, {})
    IN  /\ Len(w) = Cardinality(DOMAIN list.nodes)
        /\ list.length = Len(w)
        /\ list.tail = IF w = <<>> THEN None ELSE Some(w[Len(w)])
        /\ \A k \in 1..Len(w) :
              /\ list.nodes[w[k]].prev = IF k = 1 THEN None ELSE Some(w[k - 1])
              /\ list.nodes[w[k]].next = IF k = Len(w) THEN None ELSE Some(w[k + 1])

\* a sequence back to front
Reversed(seq) == [k \in 1..Len(seq) |-> seq[Len(seq) + 1 - k]]

\* the value a call has returned, 0 for a call that has panicked
Returned(r) == IF r.status = "ok" THEN Unwrap(r.ret) ELSE 0

RECURSIVE PopAll(_)
\* what repeated pop() calls return until one returns None or panics
PopAll(list) ==
    IF dl_pop(list).status = "ok" /\ dl_pop(list).ret = None THEN <<>>
    ELSE IF dl_pop(list).status # "ok" THEN <<0>>
    ELSE <<Returned(dl_pop(list))>>
             \o PopAll(DlList(dl_pop(list).head, dl_pop(list).tail,
                              dl_pop(list).length, dl_pop(list).nodes))

RECURSIVE PopEndAll(_)
\* what repeated pop_end() calls return until one returns None or panics
PopEndAll(list) ==
    IF dl_pop_end(list).status = "ok" /\ dl_pop_end(list).ret = None THEN <<>>
    ELSE IF dl_pop_end(list).status # "ok" THEN <<0>>
    ELSE <<Returned(dl_pop_end(list))>>
             \o PopEndAll(DlList(dl_pop_end(list).head, dl_pop_end(list).tail,
                                 dl_pop_end(list).length, dl_pop_end(list).nodes))

\* C28: reverse exchanges head and tail and the next and prev of every node: after
\* reverse on x1..xn the list is xn..x1 from both ends, so that repeated pop() returns
\* xn..x1, repeated pop_end() returns x1..xn, and push_end appends after x1 and loses no
\* element.
ReverseFromBothEnds ==
    [][(dlOp' = "reverse" /\ WellLinked(DlNow))
         => /\ dlStatus' = "ok"
            /\ dl_forward(DlNow') = Reversed(dl_forward(DlNow))
            /\ PopAll(DlNow') = Reversed(dl_forward(DlNow))
            /\ PopEndAll(DlNow') = dl_forward(DlNow)
            /\ \A v \in DlData :
                  dl_forward(dl_push_end(DlNow', v)) = Reversed(dl_forward(DlNow)) \o <<v>>
      ]_vars

\* ------------------------------------------------------------------ C31

\* the number of nodes met on the walk from head through next
Reachable(list) == Len(dl_walk(list.nodes, list.head, {}))

\* C31: in every sequence of push, push_end, pop, pop_end, remove_val, reverse and
\* clear on a list that starts empty, pop and pop_end never panic with "Multiple
\* references to node" (the popped node has one strong reference when it is
\* unwrapped), and after every call that returns len() is the number of nodes
\* reachable from head through next.
PopsUnwrapAndLenCounts ==
    /\ dlOp \in {"pop", "pop_end"} => dlStatus # "panic"
    /\ dlStatus = "ok" => dl_len(DlNow) = Reachable(DlNow)

\* ------------------------------------------------------------------ C32

\* a token list with one EOF sentinel, at its end
SentinelLast(tokens) ==
    /\ Len(tokens) >= 1
    /\ tokens[Len(tokens)] = TEOF
    /\ \A i \in 1..(Len(tokens) - 1) : tokens[i] # TEOF

\* tokenize has returned its tokens to evaluate
Tokenized == ev_frames # <<>> \/ ev_ret # NoResult

\* the position stays at or before the sentinel, and `tokens.len() - 1` has not
\* been computed on an empty Vec
BeforeSentinel ==
    /\ Tokenized => SentinelLast(ev_tokens) /\ ev_pos <= Len(ev_tokens) - 1
    /\ result.kind # "Panic"

\* the step consumes at least one token and no sentinel
ConsumesTokens ==
    /\ ev_pos' > ev_pos
    /\ \A i \in (ev_pos + 1)..ev_pos' : i <= Len(ev_tokens) /\ ev_tokens[i] # TEOF

\* the innermost call returns
ReturnsToCaller == Len(ev_frames') = Len(ev_frames) - 1

\* the innermost call, just entered, makes its first call, of the function of the
\* next lower level
Descends ==
    /\ Innermost.at = "entry"
    /\ Len(ev_frames') = Len(ev_frames) + 1
    /\ Level(ev_frames'[Len(ev_frames')].fn) < Level(Innermost.fn)

\* the steps a call that has not returned may still need for itself: its first calls
\* down the levels while it is entered, one step once it waits for a callee
FrameWeight(f) == IF f.at = "entry" THEN 2 * Level(f.fn) ELSE 1

RECURSIVE FramesWeight(_)
FramesWeight(frames) ==
    IF frames = <<>> THEN 0 ELSE FrameWeight(Head(frames)) + FramesWeight(Tail(frames))

\* a bound on the steps the parse functions have yet to make: every token before
\* the sentinel may start a call of any level
StepsLeft ==
    2 * Level("parse_expression") * (Len(ev_tokens) - 1 - ev_pos) + FramesWeight(ev_frames)

\* a step of a parse function consumes tokens, returns or goes down a level, and
\* leaves fewer steps to make
ParserStepMakesProgress ==
    (ev_frames # <<>> /\ ev_frames' # ev_frames)
        => /\ ConsumesTokens \/ ReturnsToCaller \/ Descends
           /\ StepsLeft' < StepsLeft

\* a call of evaluate that has not returned has a step to make: the innermost call
\* of a parse function, or the end of evaluate once parse_expression has returned
NeverStuck ==
    (Tokenized /\ calcOp = "new")
        => IF ev_frames # <<>>
           THEN /\ Level(Innermost.fn) <= Level("parse_expression")
                /\ step(Innermost, ev_ret, memory, last_result, ev_tokens, ev_pos) # {}
           ELSE evaluate_outcomes(last_result, ev_tokens, ev_ret, ev_pos) # {}

\* C32: for every token list that tokenize produces (it ends with its one EOF
\* sentinel, so that its length is at least 1) evaluate terminates: every recursive
\* call of a parse function and every iteration of a loop consumes a token that is
\* not the sentinel or returns, the position never exceeds the index of the sentinel,
\* the sentinel is never consumed, and `tokens.len() - 1` never underflows.
\* (StepsLeft is a natural number that every step of a parse function decreases, and
\* a call under way is never stuck: evaluate returns after at most StepsLeft steps.)
ParserTerminates ==
    /\ []BeforeSentinel
    /\ []NeverStuck
    /\ [][ParserStepMakesProgress]_vars

\* a line of seven tokens and the sentinel has been parsed to a value, through two
\* nested pairs of parentheses, with the position left on the sentinel
ParserTerminatesWitness ==
    /\ calcOp = "evaluate"
    /\ IsOk(result)
    /\ Len(ev_tokens) >= 8
    /\ ev_pos = Len(ev_tokens) - 1


====
